---- MODULE Spec2Model ----
(***************************************************************************)
(* State-machine model of the informed graph traversal of                  *)
(* src/src/framework.py (GraphSearchFramework) over the triple-store       *)
(* adapter of src/src/hdt_interface.py.                                    *)
(*                                                                         *)
(* Strings that the code builds and parses (the path keys of the           *)
(* occurrence map) are sequences of tokens: the key "3-ingoing-p;B" is     *)
(* <<"3","-","ingoing","-","p",";","B">>.  Nodes and predicates are single *)
(* tokens.  A dataframe is a sequence of records, one record per row.      *)
(*                                                                         *)
(* Ranker, NodeSelection, NodeExpansion and Ordering are imported by       *)
(* framework.py but are not among the source files; they are modelled from *)
(* sections 4.3 - 4.6 of the specification.                                *)
(***************************************************************************)
EXTENDS Integers, Sequences, FiniteSets, TLC

\* ------------------------------------------------------------------ bounds
MaxIterations == 3
MaxTriples == 2
\* most rows of the type/date frame handed to the narrative filter
MaxMetaRows == 2

Nodes == {"A", "B", "D"}
Preds == {"p", "q"}
\* the seed of every run (config["start"])
StartNode == "A"
\* the node looked for in the runs that pass an end_node
TargetNode == "D"
\* class of the target type of the runs that configure rdf_type
EventClass == "Event"
OtherClass == "Thing"
\* the nodes whose superclass is the target class
EventNodes == {"B", "D"}

None == <<>>

\* ------------------------------------------------------- strings as tokens
\* tokens in the order of their first character (ASCII)
TokenOrder ==
    <<"-", "1", "2", "3", ";", "A", "B", "D",
      "dbo:Event", "dbo:MilitaryConflict", "dbo:SocietalEvent",
      "http://www.w3.org/2000/01/rdf-schema#subClassOf",
      "http://www.w3.org/2002/07/owl#Thing",
      "ingoing", "outgoing", "p", "q">>

Rank(t) == CHOOSE k \in 1..Len(TokenOrder) : TokenOrder[k] = t

RECURSIVE StrLess(_, _)
\* a < b on python strings
StrLess(a, b) ==
    IF Len(b) = 0 THEN FALSE
    ELSE IF Len(a) = 0 THEN TRUE
    ELSE IF Head(a) = Head(b) THEN StrLess(Tail(a), Tail(b))
    ELSE Rank(Head(a)) < Rank(Head(b))

\* s.startswith(pre)
startswith(s, pre) == Len(s) >= Len(pre) /\ SubSeq(s, 1, Len(pre)) = pre

RECURSIVE replace(_, _)
\* s.replace(pat, ""): every non-overlapping occurrence of pat, left to right
replace(s, pat) ==
    IF Len(s) < Len(pat) THEN s
    ELSE IF startswith(s, pat) THEN replace(SubSeq(s, Len(pat) + 1, Len(s)), pat)
    ELSE <<Head(s)>> \o replace(Tail(s), pat)

\* sub in s
contains(s, sub) ==
    \E k \in 1..(Len(s) - Len(sub) + 1) : SubSeq(s, k, k + Len(sub) - 1) = sub

RECURSIVE split(_, _)
\* s.split(sep) for a one-token separator
split(s, sep) ==
    IF \A k \in 1..Len(s) : s[k] # sep THEN <<s>>
    ELSE LET k == CHOOSE j \in 1..Len(s) :
                      s[j] = sep /\ \A h \in 1..(j - 1) : s[h] # sep
         IN <<SubSeq(s, 1, k - 1)>> \o split(SubSeq(s, k + 1, Len(s)), sep)

\* str(x) of a node or predicate
str(x) == <<x>>

\* ---------------------------------------------------------- sequences
RECURSIVE DropDuplicates(_)
\* DataFrame.drop_duplicates(): the first occurrence of every row is kept
DropDuplicates(rows) ==
    IF rows = <<>> THEN <<>>
    ELSE LET init == DropDuplicates(SubSeq(rows, 1, Len(rows) - 1))
             last == rows[Len(rows)]
         IN IF \E k \in 1..Len(init) : init[k] = last THEN init
            ELSE Append(init, last)

SeqToSet(s) == {s[k] : k \in 1..Len(s)}

IsPrefix(s, t) == Len(s) <= Len(t) /\ SubSeq(t, 1, Len(s)) = s

\* ------------------------------------------------------------ the store
\* the triples a store can hold: no reflexive triple
Universe == {t \in Nodes \X Preds \X Nodes : t[1] # t[3]}

TripleLess(t, u) == StrLess(<<t[1], t[2], t[3]>>, <<u[1], u[2], u[3]>>)

RECURSIVE search_triples(_)
\* the triples of a set in the order the store returns them
search_triples(S) ==
    IF S = {} THEN <<>>
    ELSE LET m == CHOOSE t \in S : \A u \in S \ {t} : TripleLess(t, u)
         IN <<m>> \o search_triples(S \ {m})

Graphs == {g \in SUBSET Universe : Cardinality(g) <= MaxTriples}


\* ---------------------------------------------------------------- state
VARIABLES
    db,                      \* the triples of the store behind the adapter
    mode,                    \* GraphSearchFramework.mode
    node_selection_type,     \* GraphSearchFramework.node_selection_type
    iterations,              \* config["iterations"]
    type_ranking,            \* config["type_ranking"]
    rdf_type,                \* config["rdf_type"]: sequence of (label, IRI)
    domain_range,            \* config["ordering"]["domain_range"]
    end_node,                \* argument of __call__
    subgraph,                \* rows subject, predicate, object, type_df, iteration
    pending_nodes_ingoing,   \* rows subject, predicate, object, superclass
    pending_nodes_outgoing,
    nodes_expanded,          \* visited, in the order of expansion
    nodes_expanded_per_iter, \* rows iteration, node_expanded
    occurence,               \* path key -> count
    to_expand,               \* path chosen by the ranker, or None
    score_expansion,
    expanded,                \* rows iteration, path_expanded, node_expanded, score
    path_node_to_start,      \* node -> triples back to the seed
    found_node,              \* local of __call__: "unbound", TRUE or FALSE
    metadata,                \* local of __call__: key -> text written to metadata.json
    best_fone,               \* local of __call__: best F1 so far, <<numerator, denominator>>
    i,                       \* loop counter of __call__
    pc,                      \* position of __call__
    flt_where,               \* Filtering.where
    flt_when,                \* Filtering.when
    flt_ingoing,             \* arguments of Filtering.__call__
    flt_outgoing,
    flt_type_date,
    flt_dates,
    flt_to_discard,          \* list returned by Filtering.__call__
    flt_pc,                  \* "unused", "constructed" or "returned"
    hdt_db,                  \* HDTInterface.db_hdt: triples of IRIs and literals as text
    hdt_node,                \* arguments of HDTInterface.__call__
    hdt_predicate,
    hdt_filter_kb,           \* config["exclude_category"], handed over as filter_kb
    hdt_ingoing,             \* the three frames HDTInterface.__call__ returns
    hdt_outgoing,
    hdt_types,
    hdt_pc,                  \* "unused", "constructed" or "returned"
    sc_start,                \* argument of the outermost get_superclass
    sc_node,                 \* argument of the innermost get_superclass
    sc_depth,                \* frames of get_superclass on the stack
    sc_pc,                   \* "unused", "running", "returned" or "RecursionError"
    cfg_config,              \* argument of GraphSearchFramework.__init__
    cfg_created,             \* attributes and folders __init__ has created
    cfg_error,               \* the exception __init__ raised, or None
    cfg_pc,                  \* "unused", "called", "raised", "constructed" or
                             \* "constructed_again"
    cfg_frameworks,          \* predicate_filter of each framework constructed
    sel_candidates,          \* _select_nodes_to_expand: nodes before node_selection
    sel_nodes,               \* the two values _select_nodes_to_expand returns
    sel_path,
    sel_pc,                  \* "unused", "called", "returned" or "ValueError"
    it_nodes,                \* run_one_iteration: nodes_to_expand
    it_output,               \* run_one_iteration: output, one entry per expanded node
    it_pc,                   \* "unused", "idle" or "expanding"
    occ_in,                  \* update_occurrence_after_expansion: occurence
    occ_key,                 \* update_occurrence_after_expansion: to_expand
    occ_out,                 \* the map it returns
    occ_pc                   \* "unused", "called" or "returned"

config_vars ==
    <<db, mode, node_selection_type, iterations, type_ranking, rdf_type,
      domain_range, end_node>>

vars ==
    <<db, mode, node_selection_type, iterations, type_ranking, rdf_type,
      domain_range, end_node, subgraph, pending_nodes_ingoing,
      pending_nodes_outgoing, nodes_expanded, nodes_expanded_per_iter,
      occurence, to_expand, score_expansion, expanded, path_node_to_start,
      found_node, metadata, best_fone, i, pc,
      flt_where, flt_when, flt_ingoing, flt_outgoing, flt_type_date, flt_dates,
      flt_to_discard, flt_pc,
      hdt_db, hdt_node, hdt_predicate, hdt_filter_kb, hdt_ingoing, hdt_outgoing,
      hdt_types, hdt_pc, sc_start, sc_node, sc_depth, sc_pc,
      cfg_config, cfg_created, cfg_error, cfg_pc, cfg_frameworks,
      sel_candidates, sel_nodes, sel_path, sel_pc,
      it_nodes, it_output, it_pc,
      occ_in, occ_key, occ_out, occ_pc>>

\* the state of the framework's search loop
search_vars ==
    <<db, mode, node_selection_type, iterations, type_ranking, rdf_type,
      domain_range, end_node, subgraph, pending_nodes_ingoing,
      pending_nodes_outgoing, nodes_expanded, nodes_expanded_per_iter,
      occurence, to_expand, score_expansion, expanded, path_node_to_start,
      found_node, metadata, best_fone, i, pc>>

\* the state of one narrative filter and its call
filter_vars ==
    <<flt_where, flt_when, flt_ingoing, flt_outgoing, flt_type_date, flt_dates,
      flt_to_discard, flt_pc>>

\* the state of one adapter and its call
adapter_vars ==
    <<hdt_db, hdt_node, hdt_predicate, hdt_filter_kb, hdt_ingoing, hdt_outgoing,
      hdt_types, hdt_pc>>

\* the state of one call of get_superclass
superclass_vars == <<sc_start, sc_node, sc_depth, sc_pc>>

\* the state of one call of the framework's constructor
constructor_vars == <<cfg_config, cfg_created, cfg_error, cfg_pc, cfg_frameworks>>

\* the state of one call of _select_nodes_to_expand on attributes set by hand
select_vars == <<sel_candidates, sel_nodes, sel_path, sel_pc>>

\* the locals of run_one_iteration when its steps are looked at one by one
iteration_vars == <<it_nodes, it_output, it_pc>>

\* the state of one call of update_occurrence_after_expansion
consume_vars == <<occ_in, occ_key, occ_out, occ_pc>>

possible_modes ==
    {"search_type_node_metrics", "search_type_node_no_metrics",
     "search_specific_node", "simple_search"}

possible_node_selection == {"random", "all"}

\* the rules on predicate keys and on predicate + endpoint keys
PredRankings == {"pred_freq", "inverse_pred_freq"}
PredObjectRankings == {"pred_object_freq", "inverse_pred_object_freq"}

\* config["predicate_filter"], absent from the configs of the model
predicate_filter == {}

\* ------------------------------------------------- triple-store adapter
\* namespace of a node's IRI; every node of Nodes is a dbpedia resource
NamespaceOf(x) == "http://dbpedia.org/resource/"

NamespaceDenylist ==
    {"http://en.wikipedia.org/", "https", "http://citation.dbpedia.org/",
     "http://books.google.com/", "http://en.wikisource",
     "http://www.sparknotes.com", "\"", "http://whc.unesco.org",
     "http://www", "http://dinlarthelwa", "http://afm"}

CategoryNamespace == "http://dbpedia.org/resource/Category:"

run_request(subject_t, predicate_t, object_t, filter_pred, filter_keep) ==
    LET triples == search_triples(
            {t \in db : /\ (subject_t = "" \/ t[1] = subject_t)
                        /\ (predicate_t = "" \/ t[2] = predicate_t)
                        /\ (object_t = "" \/ t[3] = object_t)})
    IN SelectSeq(triples, LAMBDA t : (t[2] \in filter_pred) = filter_keep)

filter_namespace(triples) ==
    LET kept == SelectSeq(triples,
                    LAMBDA t : NamespaceOf(t[3]) \notin NamespaceDenylist)
    IN SelectSeq(kept, LAMBDA t : NamespaceOf(t[1]) \notin NamespaceDenylist)

filter(triples) ==
    LET t1 == filter_namespace(triples)
        t2 == SelectSeq(t1, LAMBDA t : NamespaceOf(t[1]) # CategoryNamespace)
    IN SelectSeq(t2, LAMBDA t : NamespaceOf(t[3]) # CategoryNamespace)

get_ingoing(node, predicate) ==
    filter(run_request("", "", node, predicate, FALSE))

get_outgoing(node, predicate) ==
    filter(run_request(node, "", "", predicate, FALSE))

get_df(list_triples, type_df) ==
    DropDuplicates([k \in 1..Len(list_triples) |->
        [subject |-> list_triples[k][1], predicate |-> list_triples[k][2],
         object |-> list_triples[k][3], type_df |-> type_df]])

\* ------------------------------------------------------ node expansion
Triple(row) ==
    [subject |-> row.subject, predicate |-> row.predicate, object |-> row.object]

\* One node's output bundle.  The narrative filter is off in the configs of
\* the model (no "filtering" key), so no node is discarded.
NodeExpansion(node) ==
    LET ingoing == get_df(get_ingoing(node, predicate_filter), "ingoing")
        outgoing == get_df(get_outgoing(node, predicate_filter), "outgoing")
    IN [subgraph_ingoing |-> ingoing,
        path_ingoing |-> [k \in 1..Len(ingoing) |-> Triple(ingoing[k])],
        subgraph_outgoing |-> outgoing,
        path_outgoing |-> [k \in 1..Len(outgoing) |-> Triple(outgoing[k])],
        to_discard |-> <<>>]

\* ------------------------------------------------------------ ordering
SuperclassOf(n) == IF n \in EventNodes THEN EventClass ELSE OtherClass

TargetTypes == {rdf_type[k][2] : k \in 1..Len(rdf_type)}

\* the node of a row that is not the expanded one
FreeEndpoint(row, type_node) ==
    IF type_node = "ingoing" THEN row.subject ELSE row.object

Ordering(triple_df, type_node) ==
    LET annotated == [k \in 1..Len(triple_df) |->
            [subject |-> triple_df[k].subject,
             predicate |-> triple_df[k].predicate,
             object |-> triple_df[k].object,
             superclass |-> SuperclassOf(triple_df[k].subject)]]
    IN IF domain_range = 1
       THEN SelectSeq(annotated, LAMBDA row :
                SuperclassOf(FreeEndpoint(row, type_node)) \in TargetTypes)
       ELSE annotated

\* -------------------------------------------------------------- ranker
Score(count) ==
    IF type_ranking \in {"pred_freq", "pred_object_freq"} THEN count ELSE 0 - count

\* k is ranked before k2: higher score, then priority prefix, then key order
RankedBefore(occurences, k, k2) ==
    \/ Score(occurences[k]) > Score(occurences[k2])
    \/ /\ Score(occurences[k]) = Score(occurences[k2])
       /\ \/ Rank(k[1]) < Rank(k2[1])
          \/ k[1] = k2[1] /\ StrLess(k, k2)

Ranker(occurences) ==
    IF DOMAIN occurences = {} THEN [path |-> None, score |-> None]
    ELSE LET best == CHOOSE k \in DOMAIN occurences :
                 \A k2 \in DOMAIN occurences \ {k} : RankedBefore(occurences, k, k2)
         IN [path |-> best, score |-> Score(occurences[best])]

\* ------------------------------------------------------- node selector
\* the selections the selector can return for a non-empty candidate list
NodeSelection(nodes) ==
    IF node_selection_type = "all" THEN {nodes}
    ELSE {<<nodes[k]>> : k \in 1..Len(nodes)}


\* --------------------------------------------------- GraphSearchFramework
EmptyDict == [k \in {} |-> 0]

\* occurence[key] += 1 on a defaultdict(int)
Incr(occ, key) ==
    IF key \in DOMAIN occ THEN [occ EXCEPT ![key] = @ + 1] ELSE occ @@ (key :> 1)

RECURSIVE IncrAll(_, _)
IncrAll(occ, keys) ==
    IF keys = <<>> THEN occ ELSE IncrAll(Incr(occ, Head(keys)), Tail(keys))

\* every row is given the priority prefix of a relevant superclass
get_nb_always_relevant(superclass, pred) == "1"

\* no row is given the priority prefix of a relevant superclass
get_nb_never_relevant(superclass, pred) == "3"

get_nb(superclass, pred) ==
    IF \E x \in TargetTypes : x = superclass THEN "1"
    ELSE IF pred \in {} THEN "2"
    ELSE "3"

\* f"{nb_order}-{str(row.predicate)}"
PredKey(row) ==
    <<get_nb(row.superclass, row.predicate), "-">> \o str(row.predicate)

\* f"{nb_order}-ingoing-{str(row.predicate)};{str(row.object)}"
IngoingKey(row) ==
    <<get_nb(row.superclass, row.predicate), "-", "ingoing", "-">>
        \o str(row.predicate) \o <<";">> \o str(row.object)

\* f"{nb_order}-outgoing-{str(row.subject)};{str(row.predicate)}"
OutgoingKey(row) ==
    <<get_nb(row.superclass, row.predicate), "-", "outgoing", "-">>
        \o str(row.subject) \o <<";">> \o str(row.predicate)

\* the counts of the earlier iterations are forgotten
update_occurence_forgets(ingoing, outgoing, occ) ==
    IF type_ranking \in {"pred_freq", "entropy_pred_freq", "inverse_pred_freq"}
    THEN IncrAll(IncrAll(EmptyDict,
             [k \in 1..Len(ingoing) |-> PredKey(ingoing[k])]),
             [k \in 1..Len(outgoing) |-> PredKey(outgoing[k])])
    ELSE IncrAll(IncrAll(EmptyDict,
             [k \in 1..Len(ingoing) |-> IngoingKey(ingoing[k])]),
             [k \in 1..Len(outgoing) |-> OutgoingKey(outgoing[k])])

update_occurence(ingoing, outgoing, occ) ==
    LET o1 == IF type_ranking \in {"pred_freq", "entropy_pred_freq", "inverse_pred_freq"}
              THEN IncrAll(IncrAll(occ,
                       [k \in 1..Len(ingoing) |-> PredKey(ingoing[k])]),
                       [k \in 1..Len(outgoing) |-> PredKey(outgoing[k])])
              ELSE occ
    IN IF type_ranking \in {"pred_object_freq", "entropy_pred_object_freq",
                            "inverse_pred_object_freq"}
       THEN IncrAll(IncrAll(o1,
                [k \in 1..Len(ingoing) |-> IngoingKey(ingoing[k])]),
                [k \in 1..Len(outgoing) |-> OutgoingKey(outgoing[k])])
       ELSE o1

\* the chosen key is removed whatever the node selection
update_occurrence_after_expansion_always_removes(occ, key) ==
    [k \in DOMAIN occ \ {key} |-> occ[k]]

\* v != to_expand for a count v and a key to_expand: an int never equals a str
CountDiffersFromKey(v, key) == TRUE

\* every count is lowered, not that of the chosen path alone
update_occurrence_after_expansion_lowers_all(occ, key) ==
    [k \in DOMAIN occ \ {key} |-> occ[k] - 1]

update_occurrence_after_expansion(occ, key) ==
    IF node_selection_type = "random"
    THEN [k \in DOMAIN occ |->
             IF CountDiffersFromKey(occ[k], key) THEN occ[k] ELSE occ[k] - 1]
    ELSE [k \in DOMAIN occ \ {key} |-> occ[k]]

\* the loop over "1-", "2-", "3-" of _select_nodes_to_expand
StripPrefix(s, elt) == IF startswith(s, elt) THEN replace(s, elt) ELSE s

StripPrefixes(s) ==
    StripPrefix(StripPrefix(StripPrefix(s, <<"1", "-">>), <<"2", "-">>), <<"3", "-">>)

Subjects(rows) == [k \in 1..Len(rows) |-> rows[k].subject]
Objects(rows) == [k \in 1..Len(rows) |-> rows[k].object]

\* _select_nodes_to_expand up to (not including) the call of the selector
select_nodes_to_expand ==
    LET path == StripPrefixes(to_expand)
        nodes ==
            IF to_expand # None
            THEN IF contains(path, <<";">>) /\ contains(path, <<"ingoing">>)
                 THEN LET parts == split(replace(path, <<"ingoing", "-">>), ";")
                      IN Subjects(SelectSeq(pending_nodes_ingoing, LAMBDA row :
                             str(row.predicate) = parts[1] /\ str(row.object) = parts[2]))
                 ELSE IF contains(path, <<";">>) /\ contains(path, <<"outgoing">>)
                 THEN LET parts == split(replace(path, <<"outgoing", "-">>), ";")
                      IN Objects(SelectSeq(pending_nodes_outgoing, LAMBDA row :
                             str(row.predicate) = parts[2] /\ str(row.subject) = parts[1]))
                 ELSE Subjects(SelectSeq(pending_nodes_ingoing, LAMBDA row :
                          str(row.predicate) = path))
                      \o Objects(SelectSeq(pending_nodes_outgoing, LAMBDA row :
                          str(row.predicate) = path))
            ELSE <<StartNode>>
    IN [nodes |-> SelectSeq(nodes, LAMBDA node : node \notin SeqToSet(nodes_expanded)),
        path |-> IF to_expand # None THEN <<path>> ELSE <<>>]

\* subgraph_ingoing["iteration"] = iteration
Tag(rows, iteration) ==
    [k \in 1..Len(rows) |->
        [subject |-> rows[k].subject, predicate |-> rows[k].predicate,
         object |-> rows[k].object, type_df |-> rows[k].type_df,
         iteration |-> iteration]]

\* the rows of the output replace the subgraph instead of extending it
merge_outputs_single_run_overwrites(st, out, iteration) ==
    LET path_ingoing == Ordering(out.path_ingoing, "ingoing")
        path_outgoing == Ordering(out.path_outgoing, "outgoing")
    IN [subgraph |-> Tag(out.subgraph_ingoing, iteration)
                         \o Tag(out.subgraph_outgoing, iteration),
        pending_in |-> st.pending_in \o path_ingoing,
        pending_out |-> st.pending_out \o path_outgoing,
        occurence |-> update_occurence(path_ingoing, path_outgoing, st.occurence)]

\* st: the fields subgraph, pending_in, pending_out, occurence of the framework
merge_outputs_single_run(st, out, iteration) ==
    LET path_ingoing == Ordering(out.path_ingoing, "ingoing")
        path_outgoing == Ordering(out.path_outgoing, "outgoing")
    IN [subgraph |-> st.subgraph \o Tag(out.subgraph_ingoing, iteration)
                                 \o Tag(out.subgraph_outgoing, iteration),
        pending_in |-> st.pending_in \o path_ingoing,
        pending_out |-> st.pending_out \o path_outgoing,
        occurence |-> update_occurence(path_ingoing, path_outgoing, st.occurence)]

RECURSIVE MergeAll_last_first(_, _, _)
\* the outputs are merged from the last selected node to the first
MergeAll_last_first(st, output, iteration) ==
    IF output = <<>> THEN st
    ELSE MergeAll_last_first(
             merge_outputs_single_run(st, output[Len(output)], iteration),
             SubSeq(output, 1, Len(output) - 1), iteration)

RECURSIVE MergeAll(_, _, _)
\* the loop of merge_outputs over the outputs, in the order of the list
MergeAll(st, output, iteration) ==
    IF output = <<>> THEN st
    ELSE MergeAll(merge_outputs_single_run(st, Head(output), iteration),
                  Tail(output), iteration)

\* the pending rows whose candidate node is not in visited
PurgeIngoing(rows, visited) ==
    SelectSeq(rows, LAMBDA row : row.subject \notin SeqToSet(visited))

PurgeOutgoing(rows, visited) ==
    SelectSeq(rows, LAMBDA row : row.object \notin SeqToSet(visited))

\* merge_outputs with nodes_expanded as run_one_iteration left it
merge_outputs(output, iteration, visited) ==
    LET st == MergeAll([subgraph |-> subgraph,
                        pending_in |-> pending_nodes_ingoing,
                        pending_out |-> pending_nodes_outgoing,
                        occurence |-> occurence], output, iteration)
        ranked == Ranker(st.occurence)
    IN IF ranked.path # None
       THEN [subgraph |-> st.subgraph,
             pending_in |-> PurgeIngoing(st.pending_in, visited),
             pending_out |-> PurgeOutgoing(st.pending_out, visited),
             occurence |-> update_occurrence_after_expansion(st.occurence, ranked.path),
             to_expand |-> ranked.path, score_expansion |-> ranked.score]
       ELSE [subgraph |-> st.subgraph,
             pending_in |-> st.pending_in,
             pending_out |-> st.pending_out,
             occurence |-> st.occurence,
             to_expand |-> ranked.path, score_expansion |-> ranked.score]

AsTuple(row) == <<row.subject, row.predicate, row.object>>

\* the bridging triple is put after the previous path instead of before it
UpdatePathRow_appends(ps, row, iteration, target, type_node) ==
    LET known == IF type_node = "ingoing" THEN row.object ELSE row.subject
        free == FreeEndpoint(row, type_node)
    IN IF ps.raised THEN ps
       ELSE IF iteration > 1 /\ known \notin DOMAIN ps.paths
       THEN [ps EXCEPT !.raised = TRUE]
       ELSE LET previous_path == IF iteration > 1 THEN ps.paths[known] ELSE <<>>
                new_path == previous_path \o <<AsTuple(row)>>
            IN [paths |-> IF free \in DOMAIN ps.paths
                          THEN [ps.paths EXCEPT ![free] = new_path]
                          ELSE ps.paths @@ (free :> new_path),
                found |-> ps.found \/ free = target,
                raised |-> FALSE]

\* the previous path is left out: every path is the bridging triple alone
UpdatePathRow_forgets_previous(ps, row, iteration, target, type_node) ==
    LET free == FreeEndpoint(row, type_node)
    IN [paths |-> IF free \in DOMAIN ps.paths
                  THEN [ps.paths EXCEPT ![free] = <<AsTuple(row)>>]
                  ELSE ps.paths @@ (free :> <<AsTuple(row)>>),
        found |-> ps.found \/ free = target,
        raised |-> FALSE]

\* one row of _update_path; ps: paths, found, raised (KeyError)
UpdatePathRow(ps, row, iteration, target, type_node) ==
    LET known == IF type_node = "ingoing" THEN row.object ELSE row.subject
        free == FreeEndpoint(row, type_node)
    IN IF ps.raised THEN ps
       ELSE IF iteration > 1 /\ known \notin DOMAIN ps.paths
       THEN [ps EXCEPT !.raised = TRUE]
       ELSE LET previous_path == IF iteration > 1 THEN ps.paths[known] ELSE <<>>
                new_path == <<AsTuple(row)>> \o previous_path
            IN [paths |-> IF free \in DOMAIN ps.paths
                          THEN [ps.paths EXCEPT ![free] = new_path]
                          ELSE ps.paths @@ (free :> new_path),
                found |-> ps.found \/ free = target,
                raised |-> FALSE]

RECURSIVE UpdatePathRows(_, _, _, _, _)
UpdatePathRows(ps, rows, iteration, target, type_node) ==
    IF rows = <<>> THEN ps
    ELSE UpdatePathRows(UpdatePathRow(ps, Head(rows), iteration, target, type_node),
                        Tail(rows), iteration, target, type_node)

RECURSIVE UpdatePathOutputs(_, _, _, _)
UpdatePathOutputs(ps, output, iteration, target) ==
    IF output = <<>> THEN ps
    ELSE UpdatePathOutputs(
             UpdatePathRows(
                 UpdatePathRows(ps, Head(output).path_ingoing, iteration, target, "ingoing"),
                 Head(output).path_outgoing, iteration, target, "outgoing"),
             Tail(output), iteration, target)

update_path(output, iteration, target) ==
    UpdatePathOutputs([paths |-> path_node_to_start, found |-> FALSE, raised |-> FALSE],
                      output, iteration, target)


\* ----------------------------------------------------------- behaviour
TracksPaths == mode \in {"simple_search", "search_specific_node"}

\* the rdf_type / ordering.domain_range settings that _check_config accepts
TypeSettings ==
    {<< <<>>, 0 >>,
     << << <<"event", EventClass>> >>, 0 >>,
     << << <<"event", EventClass>> >>, 1 >>}

\* no search is looked at: the fields of a framework nothing was done with
SearchUnused ==
    /\ db = {}
    /\ mode = "simple_search"
    /\ node_selection_type = "random"
    /\ iterations = 0
    /\ type_ranking = "pred_freq"
    /\ rdf_type = <<>>
    /\ domain_range = 0
    /\ end_node = ""
    /\ subgraph = <<>>
    /\ pending_nodes_ingoing = <<>>
    /\ pending_nodes_outgoing = <<>>
    /\ nodes_expanded = <<>>
    /\ nodes_expanded_per_iter = <<>>
    /\ occurence = [k \in {} |-> 0]
    /\ to_expand = None
    /\ score_expansion = None
    /\ expanded = <<>>
    /\ path_node_to_start = [k \in {} |-> 0]
    /\ found_node = "unbound"
    /\ metadata = [k \in {} |-> 0]
    /\ best_fone = <<0, 1>>
    /\ i = 0
    /\ pc = "constructed"

\* no narrative filter: the configs of the search runs have no "filtering" key
FilterUnused ==
    /\ flt_where = 0
    /\ flt_when = 0
    /\ flt_ingoing = <<>>
    /\ flt_outgoing = <<>>
    /\ flt_type_date = <<>>
    /\ flt_dates = None
    /\ flt_to_discard = <<>>
    /\ flt_pc = "unused"

\* no adapter call is looked at
AdapterUnused ==
    /\ hdt_db = {}
    /\ hdt_node = None
    /\ hdt_predicate = {}
    /\ hdt_filter_kb = 1
    /\ hdt_ingoing = <<>>
    /\ hdt_outgoing = <<>>
    /\ hdt_types = <<>>
    /\ hdt_pc = "unused"

\* no call of get_superclass is looked at
SuperclassUnused ==
    /\ sc_start = ""
    /\ sc_node = ""
    /\ sc_depth = 0
    /\ sc_pc = "unused"

\* the constructor is not looked at: it has returned
ConstructorUnused ==
    /\ cfg_config = <<>>
    /\ cfg_created = {}
    /\ cfg_error = None
    /\ cfg_pc = "unused"
    /\ cfg_frameworks = <<>>

\* _select_nodes_to_expand is not looked at on its own
SelectUnused ==
    /\ sel_candidates = <<>>
    /\ sel_nodes = <<>>
    /\ sel_path = <<>>
    /\ sel_pc = "unused"

\* run_one_iteration is not looked at step by step
IterationUnused ==
    /\ it_nodes = <<>>
    /\ it_output = <<>>
    /\ it_pc = "unused"

\* update_occurrence_after_expansion is not looked at on its own
ConsumeUnused ==
    /\ occ_in = [k \in {} |-> 0]
    /\ occ_key = None
    /\ occ_out = [k \in {} |-> 0]
    /\ occ_pc = "unused"

\* the attributes __init__ leaves, for every config of the bounded family
SearchInit ==
    /\ db \in Graphs
    /\ mode \in possible_modes
    /\ node_selection_type \in possible_node_selection
    /\ iterations \in 0..MaxIterations
    /\ type_ranking \in PredRankings \cup PredObjectRankings
    /\ \E ts \in TypeSettings : rdf_type = ts[1] /\ domain_range = ts[2]
    /\ end_node \in (IF mode = "search_specific_node" THEN {"", TargetNode} ELSE {""})
    /\ subgraph = <<>>
    /\ pending_nodes_ingoing = <<>>
    /\ pending_nodes_outgoing = <<>>
    /\ nodes_expanded = <<>>
    /\ nodes_expanded_per_iter = <<>>
    /\ occurence = EmptyDict
    /\ to_expand = None
    /\ score_expansion = None
    /\ expanded = <<>>
    /\ path_node_to_start = EmptyDict
    /\ found_node = "unbound"
    /\ metadata = EmptyDict
    /\ best_fone = <<0, 1>>
    /\ i = 0
    /\ pc = "constructed"

\* the state after construction
Init ==
    /\ SearchInit
    /\ FilterUnused
    /\ AdapterUnused
    /\ SuperclassUnused
    /\ ConstructorUnused
    /\ SelectUnused
    /\ IterationUnused
    /\ ConsumeUnused

\* config["gold_standard"] of the metrics mode, with the identity as referents
gold_standard == EventNodes

\* events_found: subjects of the ingoing rows, objects of the outgoing rows
events_found(sg) ==
    {sg[k].subject : k \in {j \in 1..Len(sg) : sg[j].type_df = "ingoing"}}
        \cup {sg[k].object : k \in {j \in 1..Len(sg) : sg[j].type_df = "outgoing"}}

\* F1 = 2 * tp / (|found| + |gold|) as <<numerator, denominator>>
Metrics(found) ==
    IF found = {} THEN <<0, 1>>
    ELSE <<2 * Cardinality(found \cap gold_standard),
           Cardinality(found) + Cardinality(gold_standard)>>

\* a > b for two fractions with positive denominators
FractionGreater(a, b) == a[1] * b[2] > b[1] * a[2]

\* json.dump of the loop counter
IntText(n) == <<"0", "1", "2", "3", "4", "5", "6", "7", "8", "9">>[n + 1]

\* dict.update(new) on old
DictUpdate(old, new) ==
    [k \in DOMAIN old \cup DOMAIN new |-> IF k \in DOMAIN new THEN new[k] ELSE old[k]]

\* the metadata after the body of iteration it
UpdateMetadata(md, it, sg) ==
    LET fone == Metrics(events_found(sg))
        best == IF mode = "search_type_node_metrics" /\ FractionGreater(fone, best_fone)
                THEN DictUpdate(md, [k \in {"best_f1", "best_corresponding_precision",
                                            "best_corresponding_recall"} |-> "number"]
                                     @@ ("best_f1_it_nb" :> IntText(it)))
                ELSE md
        last == IF mode = "search_type_node_metrics"
                THEN DictUpdate(best, [k \in {"last_f1", "last_precision",
                                              "last_recall"} |-> "number"]
                                      @@ ("last_it" :> IntText(it)))
                ELSE best
    IN DictUpdate(last, "end" :> "datetime")

\* __call__ up to the first test of the for loop
Call ==
    /\ pc = "constructed"
    /\ metadata' = IF mode = "search_specific_node" /\ end_node = "" THEN metadata
                   ELSE ("start" :> "datetime")
    /\ pc' = IF mode = "search_specific_node" /\ end_node = "" THEN "ValueError"
             ELSE IF iterations >= 1 THEN "loop"
             ELSE "budget_exhausted"
    /\ UNCHANGED <<config_vars, subgraph, pending_nodes_ingoing,
                   pending_nodes_outgoing, nodes_expanded, nodes_expanded_per_iter,
                   occurence, to_expand, score_expansion, expanded,
                   path_node_to_start, found_node, best_fone, i, filter_vars,
                   adapter_vars, superclass_vars, constructor_vars, select_vars,
                   iteration_vars, consume_vars>>

\* where __call__ stands after the body of iteration it
AfterIteration(it, up, chosen) ==
    IF TracksPaths /\ up.raised THEN "KeyError"
    ELSE IF ~TracksPaths THEN "UnboundLocalError"
    ELSE IF up.found THEN "target_found"
    ELSE IF chosen = None THEN "no_more_paths"
    ELSE IF it = iterations THEN "budget_exhausted"
    ELSE "loop"

\* one pass through the body of the for loop of __call__
\* the body of the loop of __call__ from merge_outputs on, after the nodes
\* have been expanded into output and visited is the list of nodes expanded
FinishIteration(it, nodes, output, visited) ==
    \E m \in {merge_outputs(output, it, visited)} :
    \E up \in {update_path(output, it, end_node)} :
    \E next \in {AfterIteration(it, up, m.to_expand)} :
       /\ subgraph' = m.subgraph
       /\ pending_nodes_ingoing' = m.pending_in
       /\ pending_nodes_outgoing' = m.pending_out
       /\ occurence' = m.occurence
       /\ to_expand' = m.to_expand
       /\ score_expansion' = m.score_expansion
       /\ path_node_to_start' = IF TracksPaths THEN up.paths ELSE path_node_to_start
       /\ found_node' = IF TracksPaths /\ ~up.raised THEN up.found ELSE found_node
       /\ expanded' = IF next \in {"loop", "budget_exhausted"}
                      THEN Append(expanded,
                               [iteration |-> it, path_expanded |-> m.to_expand,
                                node_expanded |-> nodes, score |-> m.score_expansion])
                      ELSE expanded
       /\ metadata' = UpdateMetadata(metadata, it, m.subgraph)
       /\ \E fone \in {Metrics(events_found(m.subgraph))} :
              best_fone' = IF mode = "search_type_node_metrics"
                              /\ FractionGreater(fone, best_fone)
                           THEN fone ELSE best_fone
       /\ pc' = next

Iteration ==
    /\ pc = "loop"
    /\ LET it == i + 1
           sel == select_nodes_to_expand
       IN \E nodes \in (IF sel.nodes # <<>> THEN NodeSelection(sel.nodes) ELSE {<<>>}) :
            \E output \in {[k \in 1..Len(nodes) |-> NodeExpansion(nodes[k])]} :
            \E visited \in {nodes_expanded \o nodes} :
               /\ i' = it
               /\ nodes_expanded_per_iter' = Append(nodes_expanded_per_iter,
                      [iteration |-> it, node_expanded |-> nodes])
               /\ nodes_expanded' = visited
               /\ FinishIteration(it, nodes, output, visited)
    /\ UNCHANGED <<config_vars, filter_vars, adapter_vars, superclass_vars,
                   constructor_vars, select_vars,
                   iteration_vars, consume_vars>>

Next == Call \/ Iteration

Spec == Init /\ [][Next]_vars

\* ---------------------------------------------- narrative filter: strings
\* characters in ASCII order
\* the characters in code point order; an IRI of the ontology is one token, it
\* begins with "h" and so follows every character of a date
CharOrder ==
    <<"-", "0", "1", "2", "3", "4", "5", "6", "7", "8", "9", "E", "_",
      "dbo:Place", "dbo:Person">>

CharRank(c) == CHOOSE k \in 1..Len(CharOrder) : CharOrder[k] = c

RECURSIVE CharLess(_, _)
\* a < b on python strings, character by character
CharLess(a, b) ==
    IF Len(b) = 0 THEN FALSE
    ELSE IF Len(a) = 0 THEN TRUE
    ELSE IF Head(a) = Head(b) THEN CharLess(Tail(a), Tail(b))
    ELSE CharRank(Head(a)) < CharRank(Head(b))

Digit(k) == <<"0", "1", "2", "3", "4", "5", "6", "7", "8", "9">>[k + 1]

IsDigit(c) == c \in {"0", "1", "2", "3", "4", "5", "6", "7", "8", "9"}

\* the text YYYY-MM-DD of the day <<y, m, d>>
IsoDate(day) ==
    <<Digit(day[1] \div 1000), Digit((day[1] \div 100) % 10),
      Digit((day[1] \div 10) % 10), Digit(day[1] % 10), "-",
      Digit(day[2] \div 10), Digit(day[2] % 10), "-",
      Digit(day[3] \div 10), Digit(day[3] % 10)>>

\* x[:4]
FirstFour(x) == SubSeq(x, 1, IF Len(x) < 4 THEN Len(x) ELSE 4)

\* re.findall("\\d{4}", val): the start positions at which four digits follow
FourDigitStarts(val) ==
    {k \in 1..(Len(val) - 3) : \A j \in 0..3 : IsDigit(val[k + j])}

\* the last group of four digits is returned
regex_helper_last_match(val, default_return_val) ==
    IF FourDigitStarts(val) # {}
    THEN LET k == CHOOSE j \in FourDigitStarts(val) :
                      \A h \in FourDigitStarts(val) : j >= h
         IN SubSeq(val, k, k + 3)
    ELSE default_return_val

\* Filtering.regex_helper
regex_helper(val, default_return_val) ==
    IF FourDigitStarts(val) # {}
    THEN LET k == CHOOSE j \in FourDigitStarts(val) :
                      \A h \in FourDigitStarts(val) : j <= h
         IN SubSeq(val, k, k + 3)
    ELSE default_return_val

\* ------------------------------------------------ narrative filter: class
\* Filtering.dates, .start_dates, .end_dates, .temporal, .places
dates == {<<"dbo:date">>}
start_dates == {<<"dbo:startDate">>, <<"dbp:birthDate">>}
end_dates == {<<"dbo:endDate">>, <<"dbp:deathDate">>}
temporal == dates \cup start_dates \cup end_dates
places == {<<"dbo:Place">>, <<"dbo:Location">>}

\* Series.unique(): first occurrences, in order
Unique(values) == DropDuplicates(values)

SubjectsOf(rows) == [k \in 1..Len(rows) |-> rows[k].subject]
ObjectsOf(rows) == [k \in 1..Len(rows) |-> rows[k].object]

\* a start date is compared with the start of the window
OutOfWindow_start_after_lo(row, dts) ==
    \/ row.predicate \in end_dates /\ CharLess(row.object, dts[1])
    \/ row.predicate \in start_dates /\ CharLess(dts[1], row.object)
    \/ row.predicate \in dates /\ CharLess(row.object, dts[1])
    \/ row.predicate \in dates /\ CharLess(dts[2], row.object)

\* the row mask of get_to_discard_date
OutOfWindow(row, dts) ==
    \/ row.predicate \in end_dates /\ CharLess(row.object, dts[1])
    \/ row.predicate \in start_dates /\ CharLess(dts[2], row.object)
    \/ row.predicate \in dates /\ CharLess(row.object, dts[1])
    \/ row.predicate \in dates /\ CharLess(dts[2], row.object)

get_to_discard_date(date_df, dts) ==
    Unique(SubjectsOf(SelectSeq(date_df, LAMBDA row : OutOfWindow(row, dts))))

\* the row mask of get_to_discard_regex on the helper column
YearOutOfWindow(year, dts) ==
    CharLess(year, FirstFour(dts[1])) \/ CharLess(FirstFour(dts[2]), year)

get_to_discard_regex(ingoing, outgoing, dts) ==
    LET ingoing_discard ==
            IF Len(ingoing) > 0
            THEN Unique(SubjectsOf(SelectSeq(ingoing, LAMBDA row :
                     YearOutOfWindow(regex_helper(row.subject, FirstFour(dts[1])), dts))))
            ELSE <<>>
        outgoing_discard ==
            IF Len(outgoing) > 0
            THEN Unique(ObjectsOf(SelectSeq(outgoing, LAMBDA row :
                     YearOutOfWindow(regex_helper(row.object, FirstFour(dts[1])), dts))))
            ELSE <<>>
    IN ingoing_discard \o outgoing_discard

\* ingoing['regex_helper'] = ...: the column the call adds to the caller's frame
WithHelperOfSubject(rows, dts) ==
    [k \in 1..Len(rows) |->
        [subject |-> rows[k].subject, predicate |-> rows[k].predicate,
         object |-> rows[k].object,
         regex_helper |-> regex_helper(rows[k].subject, FirstFour(dts[1]))]]

WithHelperOfObject(rows, dts) ==
    [k \in 1..Len(rows) |->
        [subject |-> rows[k].subject, predicate |-> rows[k].predicate,
         object |-> rows[k].object,
         regex_helper |-> regex_helper(rows[k].object, FirstFour(dts[1]))]]

get_to_discard_location(df_pd) ==
    Unique(SubjectsOf(SelectSeq(df_pd, LAMBDA row : row.object \in places)))

\* list(set(values)): the distinct values in an order the hash seed decides
ListsOfSet(values) ==
    {l \in [1..Cardinality(SeqToSet(values)) -> SeqToSet(values)] :
        SeqToSet(l) = SeqToSet(values)}

\* the rows with a point-date predicate are left out
DateFrame_start_end_only(type_date) ==
    SelectSeq(type_date, LAMBDA row : row.predicate \in start_dates \cup end_dates)

\* the rows of type_date with a temporal predicate
DateFrame(type_date) == SelectSeq(type_date, LAMBDA row : row.predicate \in temporal)

\* ------------------------------------------- narrative filter: behaviour
\* candidate nodes: an IRI without a group of four digits, and one with two
FilterNodes ==
    {<<"E", "1", "2", "3">>,
     <<"2", "0", "1", "0", "_", "2", "0", "2", "0">>}

\* the node under expansion, the other endpoint of every ingoing/outgoing row
ExpandedNode == <<"E">>

\* the days of the windows and of the temporal values
WindowDays == {<<2005, 1, 1>>, <<2010, 1, 1>>, <<2015, 1, 1>>}
ValueDays == {<<2000, 6, 1>>, <<2010, 1, 1>>, <<2020, 12, 31>>}

\* day a is not after day b
DayLeq(a, b) ==
    \/ a[1] < b[1]
    \/ a[1] = b[1] /\ a[2] < b[2]
    \/ a[1] = b[1] /\ a[2] = b[2] /\ a[3] <= b[3]

\* the type and date triples the adapter can hand over for the candidates; the
\* graph is not validated, the object of a date predicate can be an IRI. The
\* node without a year carries every kind of row, the node with years a place
\* type and point dates.
MetaUniverse ==
    {[subject |-> <<"E", "1", "2", "3">>, predicate |-> <<"rdf:type">>, object |-> c] :
        c \in {<<"dbo:Place">>, <<"dbo:Person">>}}
    \cup {[subject |-> <<"E", "1", "2", "3">>, predicate |-> q, object |-> IsoDate(d)] :
        q \in {<<"dbo:date">>, <<"dbo:startDate">>, <<"dbo:endDate">>},
        d \in ValueDays}
    \cup {[subject |-> <<"E", "1", "2", "3">>, predicate |-> <<"dbo:endDate">>,
           object |-> <<"dbo:Place">>]}
    \cup {[subject |-> <<"2", "0", "1", "0", "_", "2", "0", "2", "0">>,
           predicate |-> <<"rdf:type">>, object |-> <<"dbo:Place">>]}
    \cup {[subject |-> <<"2", "0", "1", "0", "_", "2", "0", "2", "0">>,
           predicate |-> <<"dbo:date">>, object |-> IsoDate(d)] :
        d \in {<<2010, 1, 1>>, <<2020, 12, 31>>}}

RECURSIVE SubsetsUpTo(_, _)
\* the subsets of S with at most k elements
SubsetsUpTo(S, k) ==
    IF k = 0 THEN {{}}
    ELSE LET smaller == SubsetsUpTo(S, k - 1)
         IN smaller \cup {T \cup {x} : T \in smaller, x \in S}

RECURSIVE SetToSeq(_)
\* the rows of a set in the order the adapter hands them over
SetToSeq(S) ==
    IF S = {} THEN <<>>
    ELSE LET x == CHOOSE y \in S : TRUE
         IN <<x>> \o SetToSeq(S \ {x})

\* a constructed Filtering and the arguments of one call of it
FilterInitWith(universe) ==
    /\ flt_where \in {0, 1}
    /\ flt_when \in {0, 1}
    /\ \E lo, hi \in WindowDays :
          DayLeq(lo, hi) /\ flt_dates = <<IsoDate(lo), IsoDate(hi)>>
    /\ \E M \in SubsetsUpTo(universe, MaxMetaRows) : flt_type_date = SetToSeq(M)
    /\ \E ing \in SUBSET FilterNodes : \E out \in SUBSET (FilterNodes \ ing) :
          /\ flt_ingoing = SetToSeq({[subject |-> n, predicate |-> <<"p">>,
                                      object |-> ExpandedNode] : n \in ing})
          /\ flt_outgoing = SetToSeq({[subject |-> ExpandedNode, predicate |-> <<"p">>,
                                       object |-> n] : n \in out})
    /\ flt_to_discard = <<>>
    /\ flt_pc = "constructed"
    /\ db = {}
    /\ mode = "simple_search"
    /\ node_selection_type = "random"
    /\ iterations = 0
    /\ type_ranking = "pred_freq"
    /\ rdf_type = <<>>
    /\ domain_range = 0
    /\ end_node = ""
    /\ subgraph = <<>>
    /\ pending_nodes_ingoing = <<>>
    /\ pending_nodes_outgoing = <<>>
    /\ nodes_expanded = <<>>
    /\ nodes_expanded_per_iter = <<>>
    /\ occurence = EmptyDict
    /\ to_expand = None
    /\ score_expansion = None
    /\ expanded = <<>>
    /\ path_node_to_start = EmptyDict
    /\ found_node = "unbound"
    /\ metadata = EmptyDict
    /\ best_fone = <<0, 1>>
    /\ i = 0
    /\ pc = "constructed"
    /\ AdapterUnused
    /\ SuperclassUnused
    /\ ConstructorUnused
    /\ SelectUnused
    /\ IterationUnused
    /\ ConsumeUnused

\* a filter constructed, and the frames of one call with dated and typed rows
FilterInit == FilterInitWith(MetaUniverse)

\* the years a normalised xsd:integer value can hold
YearValues == {2000, 2005, 2010, 2020}

\* the temporal triples whose object is a year of four characters, as
\* pre_process_date leaves an xsd:integer literal
YearUniverse ==
    {[subject |-> n, predicate |-> q, object |-> FirstFour(IsoDate(<<y, 1, 1>>))] :
        n \in FilterNodes,
        q \in {<<"dbo:date">>, <<"dbo:startDate">>, <<"dbo:endDate">>},
        y \in YearValues}

\* a filter constructed, and the frames of one call with year values
YearFilterInit == FilterInitWith(YearUniverse)

\* Filtering.__call__
FilterCall ==
    /\ flt_pc = "constructed"
    /\ \E located \in (IF flt_where = 1
                       THEN ListsOfSet(get_to_discard_location(flt_type_date))
                       ELSE {<<>>}) :
       \E dated \in (IF flt_when = 1
                     THEN ListsOfSet(
                              get_to_discard_date(DateFrame(flt_type_date), flt_dates)
                              \o get_to_discard_regex(flt_ingoing, flt_outgoing, flt_dates))
                     ELSE {<<>>}) :
          flt_to_discard' = located \o dated
    /\ flt_ingoing' = IF flt_when = 1 /\ Len(flt_ingoing) > 0
                      THEN WithHelperOfSubject(flt_ingoing, flt_dates)
                      ELSE flt_ingoing
    /\ flt_outgoing' = IF flt_when = 1 /\ Len(flt_outgoing) > 0
                       THEN WithHelperOfObject(flt_outgoing, flt_dates)
                       ELSE flt_outgoing
    /\ flt_pc' = "returned"
    /\ UNCHANGED <<flt_where, flt_when, flt_type_date, flt_dates, search_vars,
                   adapter_vars, superclass_vars, constructor_vars, select_vars,
                   iteration_vars, consume_vars>>

FilterNext == FilterCall

FilterSpec == FilterInit /\ [][FilterNext]_vars

YearFilterSpec == YearFilterInit /\ [][FilterNext]_vars

\* ------------------------------------ adapter over IRIs and literals
\* HDTInterface on a store whose IRIs and literals are spelled out as text: a
\* sequence of tokens in which every prefix the code looks for is a token of
\* its own, and each of the first eleven characters of a typed literal is one
\* token.
MaxStoreTriples == 3

\* the node handed to the adapter, and a neighbour of it
ExpandedIRI == <<"http://dbpedia.org/resource/", "N">>
NeighbourIRI == <<"http://dbpedia.org/resource/", "E">>
OtherNeighbourIRI == <<"http://dbpedia.org/resource/", "F">>
CategoryIRI == <<"http://dbpedia.org/resource/", "Category:", "Battles">>
WikipediaIRI == <<"http://en.wikipedia.org/", "wiki/Battle">>
EventIRI == <<"http://dbpedia.org/ontology/", "Event">>

XsdDate == "<http://www.w3.org/2001/XMLSchema#date>"
XsdInteger == "<http://www.w3.org/2001/XMLSchema#integer>"

\* "2010-01-01"^^<http://www.w3.org/2001/XMLSchema#date>
DateLiteral ==
    <<"\"", "2", "0", "1", "0", "-", "0", "1", "-", "0", "1", "\"", "^", "^", XsdDate>>
\* "1987"^^<http://www.w3.org/2001/XMLSchema#integer>
YearLiteral == <<"\"", "1", "9", "8", "7", "\"", "^", "^", XsdInteger>>
\* "12"^^<http://www.w3.org/2001/XMLSchema#integer>
SmallIntegerLiteral == <<"\"", "1", "2", "\"", "^", "^", XsdInteger>>
\* "Unknown"@en and "Battle"@en
UnknownLiteral == <<"\"", "Unknown", "\"", "@", "en">>
LabelLiteral == <<"\"", "Battle", "\"", "@", "en">>

\* an ordinary predicate, and one of the predicates configs exclude
Commander == <<"dbo:commander">>
WikiLink == <<"dbo:wikiPageWikiLink">>

\* DEFAULT_PRED: rdf:type and the date predicates
DEFAULT_PRED == {<<"rdf:type">>} \cup temporal

\* the triples a store can hold around the expanded node
\* owl:Thing, whose IRI begins with the denied prefix "http://www"
ThingIRI == <<"http://www", ".w3.org/2002/07/owl#Thing">>

StoreUniverse ==
    {<<NeighbourIRI, Commander, ExpandedIRI>>,
     <<NeighbourIRI, WikiLink, ExpandedIRI>>,
     <<CategoryIRI, Commander, ExpandedIRI>>,
     <<WikipediaIRI, Commander, ExpandedIRI>>,
     <<ExpandedIRI, Commander, NeighbourIRI>>,
     <<ExpandedIRI, WikiLink, NeighbourIRI>>,
     <<ExpandedIRI, Commander, CategoryIRI>>,
     <<ExpandedIRI, Commander, WikipediaIRI>>,
     <<ExpandedIRI, Commander, LabelLiteral>>,
     <<ExpandedIRI, <<"rdf:type">>, EventIRI>>,
     <<ExpandedIRI, <<"dbo:date">>, DateLiteral>>,
     <<NeighbourIRI, <<"rdf:type">>, EventIRI>>,
     <<NeighbourIRI, <<"dbo:date">>, DateLiteral>>,
     <<NeighbourIRI, <<"dbo:date">>, YearLiteral>>,
     <<NeighbourIRI, <<"dbo:date">>, SmallIntegerLiteral>>,
     <<NeighbourIRI, <<"dbo:date">>, UnknownLiteral>>,
     <<NeighbourIRI, Commander, LabelLiteral>>,
     <<CategoryIRI, <<"rdf:type">>, EventIRI>>,
     <<OtherNeighbourIRI, Commander, ExpandedIRI>>,
     <<OtherNeighbourIRI, <<"rdf:type">>, EventIRI>>,
     <<OtherNeighbourIRI, <<"rdf:type">>, ThingIRI>>}

\* db_hdt.search_triples(subject_t, predicate_t, object_t) with "" as None
hdt_search_triples(subject_t, predicate_t, object_t) ==
    SetToSeq({t \in hdt_db : /\ (subject_t = None \/ t[1] = subject_t)
                             /\ (predicate_t = None \/ t[2] = predicate_t)
                             /\ (object_t = None \/ t[3] = object_t)})

\* HDTInterface.run_request on the text store
hdt_run_request(subject_t, object_t, filter_pred, filter_keep) ==
    SelectSeq(hdt_search_triples(subject_t, None, object_t),
              LAMBDA t : (t[2] \in filter_pred) = filter_keep)

\* to_discard of _filter_namespace
to_discard ==
    {<<"http://en.wikipedia.org/">>, <<"https">>, <<"http://citation.dbpedia.org/">>,
     <<"http://books.google.com/">>, <<"http://en.wikisource">>,
     <<"http://www.sparknotes.com">>, <<"\"">>, <<"http://whc.unesco.org">>,
     <<"http://www">>, <<"http://dinlarthelwa">>, <<"http://afm">>}

hdt_filter_namespace(triples) ==
    LET kept == SelectSeq(triples, LAMBDA elt :
                    ~\E discard \in to_discard : startswith(elt[3], discard))
    IN SelectSeq(kept, LAMBDA elt :
           ~\E discard \in to_discard : startswith(elt[1], discard))

\* 'http://dbpedia.org/resource/Category:'
CategoryPrefix == <<"http://dbpedia.org/resource/", "Category:">>

\* the category triples are left in
hdt_filter_keeps_categories(triples) == hdt_filter_namespace(triples)

hdt_filter(triples) ==
    LET t1 == hdt_filter_namespace(triples)
        t2 == SelectSeq(t1, LAMBDA elt : ~startswith(elt[1], CategoryPrefix))
    IN SelectSeq(t2, LAMBDA elt : ~startswith(elt[3], CategoryPrefix))

hdt_get_ingoing(node, predicate) ==
    hdt_filter(hdt_run_request(None, node, predicate, FALSE))

hdt_get_outgoing(node, predicate) ==
    hdt_filter(hdt_run_request(node, None, predicate, FALSE))

\* x[a:b] of python, positions counted from 0
Slice(x, a, b) == SubSeq(x, a + 1, IF b < Len(x) THEN b ELSE Len(x))

\* the typed literal is returned as it is
pre_process_date_identity(x_date) == x_date

pre_process_date(x_date) ==
    IF contains(x_date, <<XsdDate>>) THEN Slice(x_date, 1, 11)
    ELSE IF contains(x_date, <<XsdInteger>>) THEN Slice(x_date, 1, 5)
    ELSE x_date

\* invalid of _filter_specific
invalid == {<<"\"", "Unknown", "\"", "@">>}

filter_specific(triples) ==
    LET valid == SelectSeq(triples, LAMBDA t : t[3] \notin invalid)
    IN [k \in 1..Len(valid) |->
           <<valid[k][1], valid[k][2], pre_process_date(valid[k][3])>>]

RECURSIVE RequestsOf(_)
\* temp_res += run_request(subject=e, filter_pred=self.pred, filter_keep=True), for e in turn
RequestsOf(endpoints) ==
    IF endpoints = <<>> THEN <<>>
    ELSE hdt_run_request(Head(endpoints), None, DEFAULT_PRED, TRUE)
             \o RequestsOf(Tail(endpoints))

\* the meta rows of the subjects of the ingoing triples only
get_specific_outgoing_ingoing_only(ingoing, outgoing) ==
    RequestsOf([k \in 1..Len(ingoing) |-> ingoing[k][1]])

get_specific_outgoing(ingoing, outgoing) ==
    RequestsOf([k \in 1..Len(ingoing) |-> ingoing[k][1]])
        \o RequestsOf([k \in 1..Len(outgoing) |-> outgoing[k][3]])

get_all_results(node, predicate) ==
    LET ingoing == hdt_get_ingoing(node, predicate)
        outgoing == hdt_get_outgoing(node, predicate)
    IN <<ingoing, outgoing, filter_specific(get_specific_outgoing(ingoing, outgoing))>>

\* a constructed adapter and the arguments of one call of it
AdapterInit ==
    /\ hdt_db \in SubsetsUpTo(StoreUniverse, MaxStoreTriples)
    /\ hdt_node = ExpandedIRI
    /\ hdt_predicate \in {{}, {WikiLink}}
    /\ hdt_filter_kb \in {0, 1}
    /\ hdt_ingoing = <<>>
    /\ hdt_outgoing = <<>>
    /\ hdt_types = <<>>
    /\ hdt_pc = "constructed"
    /\ SearchUnused
    /\ FilterUnused
    /\ SuperclassUnused
    /\ ConstructorUnused
    /\ SelectUnused
    /\ IterationUnused
    /\ ConsumeUnused

\* HDTInterface.__call__
AdapterCall ==
    /\ hdt_pc = "constructed"
    /\ \E results \in {get_all_results(hdt_node, hdt_predicate)} :
          /\ hdt_ingoing' = get_df(results[1], "ingoing")
          /\ hdt_outgoing' = get_df(results[2], "outgoing")
          /\ hdt_types' = get_df(results[3], "spec. outgoing")
    /\ hdt_pc' = "returned"
    /\ UNCHANGED <<hdt_db, hdt_node, hdt_predicate, hdt_filter_kb, search_vars,
                   filter_vars, superclass_vars, constructor_vars, select_vars,
                   iteration_vars, consume_vars>>

AdapterNext == AdapterCall

AdapterSpec == AdapterInit /\ [][AdapterNext]_vars

\* ---------------------------------------------------------- superclass
\* most subClassOf triples of a store of classes
MaxClassTriples == 3
\* frames python allows on the stack before it raises RecursionError
RecursionLimit == 5

subClassOf == "http://www.w3.org/2000/01/rdf-schema#subClassOf"
owlThing == "http://www.w3.org/2002/07/owl#Thing"
Classes == {"dbo:Event", "dbo:MilitaryConflict", "dbo:SocietalEvent"}

\* the subClassOf triples a store can hold, a class under itself included
ClassUniverse == Classes \X {subClassOf} \X (Classes \cup {owlThing})

\* the frame returns the class right above the node
get_superclass_direct_parent(node) ==
    LET info == run_request(str(node)[1], "", "", {subClassOf}, TRUE)
    IN IF Len(info) = 0 THEN [returns |-> TRUE, node |-> node]
       ELSE [returns |-> TRUE, node |-> info[1][3]]

\* one frame of get_superclass: the node it returns, or the node it calls
\* itself with
get_superclass(node) ==
    LET info == run_request(str(node)[1], "", "", {subClassOf}, TRUE)
    IN IF Len(info) = 0 THEN [returns |-> TRUE, node |-> node]
       ELSE IF str(info[1][3])[1] = owlThing THEN [returns |-> TRUE, node |-> node]
       ELSE [returns |-> FALSE, node |-> str(info[1][3])[1]]

\* get_superclass has been called on a class of a store
SuperclassInit ==
    /\ db \in SubsetsUpTo(ClassUniverse, MaxClassTriples)
    /\ sc_start \in Classes
    /\ sc_node = sc_start
    /\ sc_depth = 1
    /\ sc_pc = "running"
    /\ mode = "simple_search"
    /\ node_selection_type = "random"
    /\ iterations = 0
    /\ type_ranking = "pred_freq"
    /\ rdf_type = <<>>
    /\ domain_range = 0
    /\ end_node = ""
    /\ subgraph = <<>>
    /\ pending_nodes_ingoing = <<>>
    /\ pending_nodes_outgoing = <<>>
    /\ nodes_expanded = <<>>
    /\ nodes_expanded_per_iter = <<>>
    /\ occurence = [k \in {} |-> 0]
    /\ to_expand = None
    /\ score_expansion = None
    /\ expanded = <<>>
    /\ path_node_to_start = [k \in {} |-> 0]
    /\ found_node = "unbound"
    /\ metadata = [k \in {} |-> 0]
    /\ best_fone = <<0, 1>>
    /\ i = 0
    /\ pc = "constructed"
    /\ FilterUnused
    /\ AdapterUnused
    /\ ConstructorUnused
    /\ SelectUnused
    /\ IterationUnused
    /\ ConsumeUnused

\* the innermost frame of get_superclass runs: it returns, and with it every
\* frame below, or it calls get_superclass once more
GetSuperclass ==
    /\ sc_pc = "running"
    /\ \E frame \in {get_superclass(sc_node)} :
          IF frame.returns
          THEN /\ sc_pc' = "returned"
               /\ sc_node' = frame.node
               /\ sc_depth' = 0
          ELSE IF sc_depth >= RecursionLimit
          THEN /\ sc_pc' = "RecursionError"
               /\ UNCHANGED <<sc_node, sc_depth>>
          ELSE /\ sc_node' = frame.node
               /\ sc_depth' = sc_depth + 1
               /\ sc_pc' = "running"
    /\ UNCHANGED <<sc_start, search_vars, filter_vars, adapter_vars, constructor_vars,
                   select_vars, iteration_vars, consume_vars>>

SuperclassNext == GetSuperclass

SuperclassSpec == SuperclassInit /\ [][SuperclassNext]_vars

\* --------------------------------------------------------- constructor
\* A config is a record; a key holds <<>> when the config lacks it and
\* <<value>> when it has it.
possible_type_interface == {"triply", "hdt"}

possible_type_ranking ==
    {"pred_freq", "inverse_pred_freq", "entropy_pred_freq",
     "pred_object_freq", "inverse_pred_object_freq", "entropy_pred_object_freq"}

\* self.config_error_messages[key]: the message the table holds for the key
config_error_messages(key) == <<"message of", key>>

ValueError(key) == [type |-> "ValueError", message |-> config_error_messages(key)]
TypeError(key) == [type |-> "TypeError", message |-> config_error_messages(key)]

\* int(text) succeeds: the text is made of digits
IsInt(text) == Len(text) > 0 /\ \A k \in 1..Len(text) : IsDigit(text[k])

RECURSIVE int(_)
\* int(text) of a text of digits
int(text) ==
    IF Len(text) = 0 THEN 0
    ELSE 10 * int(SubSeq(text, 1, Len(text) - 1))
            + (CHOOSE v \in 0..9 : Digit(v) = text[Len(text)])

\* the days of a month, as datetime counts them
DaysInMonth(year, month) ==
    IF month \in {4, 6, 9, 11} THEN 30
    ELSE IF month # 2 THEN 31
    ELSE IF year % 4 = 0 /\ (year % 100 # 0 \/ year % 400 = 0) THEN 29
    ELSE 28

\* datetime(int(date[:4]), int(date[5:7]), int(date[8:10])) raises nothing
datetime_accepts(date) ==
    /\ IsInt(Slice(date, 0, 4))
    /\ IsInt(Slice(date, 5, 7))
    /\ IsInt(Slice(date, 8, 10))
    /\ int(Slice(date, 0, 4)) \in 1..9999
    /\ int(Slice(date, 5, 7)) \in 1..12
    /\ int(Slice(date, 8, 10)) \in
          1..DaysInMonth(int(Slice(date, 0, 4)), int(Slice(date, 5, 7)))

\* the check of the dates passes for every text
check_dates_accepts_all(config) == None

\* the loop of _check_config over start_date and end_date: the exception it
\* raises, or None
check_dates(config) ==
    IF config.filtering_when # <<1>> THEN None
    ELSE IF config.start_date = <<>> THEN TypeError("start_date")
    ELSE IF ~datetime_accepts(config.start_date[1]) THEN TypeError("start_date")
    ELSE IF config.end_date = <<>> THEN TypeError("end_date")
    ELSE IF ~datetime_accepts(config.end_date[1]) THEN TypeError("end_date")
    ELSE None

\* GraphSearchFramework._check_config: the exception it raises, or None.  The
\* values of a config of the model have the types the checks ask for, the
\* optional keys predicate_filter, ordering and name_exp are not in it, and
\* the mode asks for no rdf_type.
check_config(config) ==
    IF config.start = <<>> THEN ValueError("start")
    ELSE IF config.iterations = <<>> THEN ValueError("iterations")
    ELSE IF config.type_ranking = <<>> THEN ValueError("type_ranking")
    ELSE IF config.type_ranking[1] \notin possible_type_ranking
    THEN TypeError("type_ranking")
    ELSE IF config.type_interface = <<>> THEN ValueError("type_interface")
    ELSE IF config.type_interface[1] \notin possible_type_interface
    THEN TypeError("type_interface")
    ELSE IF config.dataset_type = <<>> THEN ValueError("dataset_type")
    ELSE IF config.dataset_type[1] \notin {"wikidata", "dbpedia", "yago"}
    THEN TypeError("dataset_type")
    ELSE IF config.dataset_path = <<>> THEN ValueError("dataset_path")
    ELSE check_dates(config)

\* what __init__ has set before it calls _check_config
CreatedBeforeCheck ==
    {"mode", "node_selection_type", "node_selection", "possible_type_interface",
     "possible_type_ranking", "config_error_messages"}

\* what __init__ sets and creates after _check_config, the output folder first
CreatedAfterCheck ==
    {"iterations", "type_interface", "dataset_type", "dataset_config",
     "type_ranking", "folder_name_suffix", "save_folder", "config", "rdf_type",
     "predicate_filter", "start", "dates", "interface", "subgraph",
     "subgraph_info", "pending_nodes_ingoing", "pending_nodes_outgoing", "info",
     "nb_cpu", "paths", "ranker", "nodes_expanded", "occurence", "to_expand",
     "score_expansion", "nodes_expanded_per_iter", "expanded", "discarded",
     "plotter", "ordering", "node_expander", "path_node_to_start"}

\* the texts a config can hold as start_date or end_date
ConfigDates ==
    {IsoDate(<<2010, 1, 1>>),
     <<"2", "0", "1", "0", "-", "0", "2", "-", "3", "0">>,
     <<"s", "o", "o", "n">>}

\* config["predicate_filter"] when the caller gives one
ConfiguredFilter == <<"dbo:wikiPageWikiLink">>

\* dataset_config["rdf_type"]
DatasetRdfType == "rdf:type"

\* what __init__ has set when it calls _add_save_info
CreatedBeforeFolder ==
    CreatedBeforeCheck
    \cup {"iterations", "type_interface", "dataset_type", "dataset_config",
          "type_ranking", "folder_name_suffix"}

\* the error of _add_save_info when the folder of this second and suffix exists
FolderExists ==
    [type |-> "ValueError",
     message |-> <<"Folder to save data already exists, re creating one">>]

\* self.predicate_filter of a framework: the caller's list itself when the
\* config holds one, a list of its own otherwise
predicate_filter_of(framework, config) ==
    IF framework.is_config_list THEN config.predicate_filter[1] ELSE framework.own

\* lines 113 and 176-178: the attribute is bound to the caller's list or to a
\* new empty list, then extended in place
bind_predicate_filter(config) ==
    LET added == IF config.filtering_what = <<1>> THEN <<DatasetRdfType>> ELSE <<>>
    IN IF config.predicate_filter # <<>>
       THEN [config |-> [config EXCEPT !.predicate_filter = <<@[1] \o added>>],
             framework |-> [is_config_list |-> TRUE, own |-> <<>>]]
       ELSE [config |-> config,
             framework |-> [is_config_list |-> FALSE, own |-> added]]

\* the configs of the bounded family
Configs ==
    [start : {<<>>, <<StartNode>>},
     iterations : {<<>>, <<1>>},
     type_ranking : {<<>>, <<"pred_freq">>, <<"page_rank">>},
     type_interface : {<<>>, <<"hdt">>, <<"sparql">>},
     dataset_type : {<<>>, <<"dbpedia">>, <<"freebase">>},
     dataset_path : {<<>>, <<"path">>},
     predicate_filter : {<<>>, <<ConfiguredFilter>>},
     filtering_what : {<<>>, <<0>>, <<1>>},
     filtering_when : {<<>>, <<0>>, <<1>>},
     start_date : {<<>>} \cup {<<d>> : d \in ConfigDates},
     end_date : {<<>>} \cup {<<d>> : d \in ConfigDates}]

\* GraphSearchFramework(config) has been called, mode and node_selection valid
ConstructorInit ==
    /\ cfg_config \in Configs
    /\ cfg_created = {}
    /\ cfg_error = None
    /\ cfg_pc = "called"
    /\ cfg_frameworks = <<>>
    /\ SearchUnused
    /\ FilterUnused
    /\ AdapterUnused
    /\ SuperclassUnused
    /\ SelectUnused
    /\ IterationUnused
    /\ ConsumeUnused

\* GraphSearchFramework.__init__, for the first framework made from the config
\* and for a second one made from the same config object; the second finds
\* the output folder of the first when both are made within one second
Construct ==
    /\ cfg_pc \in {"called", "constructed"}
    /\ \E error \in {check_config(cfg_config)} :
       \E same_second \in (IF cfg_pc = "constructed" THEN BOOLEAN ELSE {FALSE}) :
          IF error # None
          THEN /\ cfg_error' = error
               /\ cfg_created' = CreatedBeforeCheck
               /\ cfg_pc' = "raised"
               /\ UNCHANGED <<cfg_config, cfg_frameworks>>
          ELSE IF same_second
          THEN /\ cfg_error' = FolderExists
               /\ cfg_created' = CreatedBeforeFolder
               /\ cfg_pc' = "raised"
               /\ UNCHANGED <<cfg_config, cfg_frameworks>>
          ELSE \E bound \in {bind_predicate_filter(cfg_config)} :
               /\ cfg_error' = None
               /\ cfg_created' = CreatedBeforeCheck \cup CreatedAfterCheck
               /\ cfg_config' = bound.config
               /\ cfg_frameworks' = Append(cfg_frameworks, bound.framework)
               /\ cfg_pc' = IF cfg_pc = "called" THEN "constructed"
                            ELSE "constructed_again"
    /\ UNCHANGED <<search_vars, filter_vars, adapter_vars, superclass_vars,
                   select_vars, iteration_vars, consume_vars>>

ConstructorNext == Construct

ConstructorSpec == ConstructorInit /\ [][ConstructorNext]_vars


\* ----------------------------------------- candidate selection on IRI text
\* _select_nodes_to_expand cuts and compares the text of the chosen key.  Here
\* nodes and predicates are IRIs as text of several tokens, so that the text
\* of a node can hold the text the method removes.

MaxPendingRows == 2

SeedIRI == <<"A">>
PlainIRI == <<"B">>
\* a node whose name holds "3-", as http://dbpedia.org/resource/3-inch_gun does
DashedIRI == <<"D", "3", "-", "D">>

\* a node whose name holds ";"
SemicolonIRI == <<"B", ";", "D">>

SelectIRIs == {SeedIRI, PlainIRI, DashedIRI, SemicolonIRI}
SelectPredicates == {<<"p">>, <<"q">>}

\* rows of the pending frames, subject, predicate and object as text
SelectRows ==
    {row \in [subject : SelectIRIs, predicate : SelectPredicates, object : SelectIRIs] :
        row.subject # row.object}

\* the keys _update_occurence writes for a row, nb_order being the prefix
text_pred_key(nb_order, row) == <<nb_order, "-">> \o row.predicate

text_ingoing_key(nb_order, row) ==
    <<nb_order, "-", "ingoing", "-">> \o row.predicate \o <<";">> \o row.object

text_outgoing_key(nb_order, row) ==
    <<nb_order, "-", "outgoing", "-">> \o row.subject \o <<";">> \o row.predicate

\* the keys the occurrence map can hold for rows at visited nodes
SelectKeys(visited) ==
    IF type_ranking \in PredRankings
    THEN {text_pred_key(nb, row) : nb \in {"1", "3"},
              row \in {r \in SelectRows : r.subject \in visited \/ r.object \in visited}}
    ELSE {text_ingoing_key(nb, row) : nb \in {"1", "3"},
              row \in {r \in SelectRows : r.object \in visited}}
         \cup {text_outgoing_key(nb, row) : nb \in {"1", "3"},
              row \in {r \in SelectRows : r.subject \in visited}}

RECURSIVE Frames(_, _)
\* the frames of at most k distinct rows of S
Frames(S, k) ==
    IF k = 0 THEN {<<>>}
    ELSE LET shorter == Frames(S, k - 1)
         IN shorter \cup {Append(f, row) : f \in shorter, row \in S}

\* _select_nodes_to_expand on text, up to (not including) the call of the
\* selector; to_expand is the attribute as the method leaves it
select_nodes_to_expand_text ==
    LET path == StripPrefixes(to_expand)
        nodes ==
            IF to_expand # None
            THEN IF contains(path, <<";">>) /\ contains(path, <<"ingoing">>)
                 THEN LET parts == split(replace(path, <<"ingoing", "-">>), ";")
                      IN Subjects(SelectSeq(pending_nodes_ingoing, LAMBDA row :
                             row.predicate = parts[1] /\ row.object = parts[2]))
                 ELSE IF contains(path, <<";">>) /\ contains(path, <<"outgoing">>)
                 THEN LET parts == split(replace(path, <<"outgoing", "-">>), ";")
                      IN Objects(SelectSeq(pending_nodes_outgoing, LAMBDA row :
                             row.predicate = parts[2] /\ row.subject = parts[1]))
                 ELSE Subjects(SelectSeq(pending_nodes_ingoing, LAMBDA row :
                          row.predicate = path))
                      \o Objects(SelectSeq(pending_nodes_outgoing, LAMBDA row :
                          row.predicate = path))
            ELSE <<SeedIRI>>
        unpacked ==
            IF to_expand # None /\ contains(path, <<";">>)
                  /\ (contains(path, <<"ingoing">>) \/ contains(path, <<"outgoing">>))
            THEN Len(split(path, ";"))
            ELSE 2
    IN IF unpacked # 2
       THEN [raised |-> "ValueError", nodes |-> <<>>, path |-> <<path>>,
             to_expand |-> path]
       ELSE [raised |-> "",
             nodes |-> SelectSeq(nodes, LAMBDA node : node \notin SeqToSet(nodes_expanded)),
             path |-> IF to_expand # None THEN <<path>> ELSE <<>>,
             to_expand |-> IF to_expand # None THEN path ELSE to_expand]

\* the attributes before one call: nothing visited and no key in iteration 1,
\* later the pending rows between a visited and an unvisited node and a key
\* of the occurrence map
SelectInit ==
    /\ node_selection_type \in possible_node_selection
    /\ type_ranking \in {"pred_freq", "pred_object_freq"}
    /\ nodes_expanded \in {<<>>, <<SeedIRI>>, <<SeedIRI, PlainIRI>>, <<SeedIRI, DashedIRI>>,
                          <<SeedIRI, SemicolonIRI>>}
    /\ \E visited \in {SeqToSet(nodes_expanded)} :
          IF visited = {}
          THEN /\ to_expand = None
               /\ pending_nodes_ingoing = <<>>
               /\ pending_nodes_outgoing = <<>>
          ELSE /\ to_expand \in SelectKeys(visited)
               /\ pending_nodes_ingoing \in Frames(
                      {r \in SelectRows : r.object \in visited /\ r.subject \notin visited},
                      MaxPendingRows)
               /\ pending_nodes_outgoing \in Frames(
                      {r \in SelectRows : r.subject \in visited /\ r.object \notin visited},
                      MaxPendingRows)
    /\ sel_candidates = <<>>
    /\ sel_nodes = <<>>
    /\ sel_path = <<>>
    /\ sel_pc = "called"
    /\ db = {}
    /\ mode = "simple_search"
    /\ iterations = 0
    /\ rdf_type = <<>>
    /\ domain_range = 0
    /\ end_node = ""
    /\ subgraph = <<>>
    /\ nodes_expanded_per_iter = <<>>
    /\ occurence = [k \in {} |-> 0]
    /\ score_expansion = None
    /\ expanded = <<>>
    /\ path_node_to_start = [k \in {} |-> 0]
    /\ found_node = "unbound"
    /\ metadata = [k \in {} |-> 0]
    /\ best_fone = <<0, 1>>
    /\ i = 0
    /\ pc = "constructed"
    /\ FilterUnused
    /\ AdapterUnused
    /\ SuperclassUnused
    /\ ConstructorUnused
    /\ IterationUnused
    /\ ConsumeUnused

\* GraphSearchFramework._select_nodes_to_expand
SelectNodes ==
    /\ sel_pc = "called"
    /\ \E sel \in {select_nodes_to_expand_text} :
       \E nodes \in (IF sel.nodes # <<>> THEN NodeSelection(sel.nodes) ELSE {<<>>}) :
          /\ to_expand' = sel.to_expand
          /\ sel_candidates' = sel.nodes
          /\ sel_nodes' = nodes
          /\ sel_path' = IF sel.raised = "" THEN sel.path ELSE <<>>
          /\ sel_pc' = IF sel.raised = "" THEN "returned" ELSE sel.raised
    /\ UNCHANGED <<db, mode, node_selection_type, iterations, type_ranking, rdf_type,
                   domain_range, end_node, subgraph, pending_nodes_ingoing,
                   pending_nodes_outgoing, nodes_expanded, nodes_expanded_per_iter,
                   occurence, score_expansion, expanded, path_node_to_start,
                   found_node, metadata, best_fone, i, pc,
                   filter_vars, adapter_vars, superclass_vars, constructor_vars,
                   iteration_vars, consume_vars>>

SelectNext == SelectNodes

SelectSpec == SelectInit /\ [][SelectNext]_vars


\* ------------------------------------- one iteration, statement by statement
\* run_one_iteration and the rest of the loop body of __call__, with one step
\* for the selection, one step for each turn of the loop over the selected
\* nodes, and one step from merge_outputs to the end of the loop body.
\* type_interface is "triply" or "hdt" (_check_config), never '', so the loop
\* of lines 419-428 is the branch every run takes.

StepInit ==
    /\ SearchInit
    /\ it_nodes = <<>>
    /\ it_output = <<>>
    /\ it_pc = "idle"
    /\ ConsumeUnused
    /\ FilterUnused
    /\ AdapterUnused
    /\ SuperclassUnused
    /\ ConstructorUnused
    /\ SelectUnused

\* __call__ up to the loop
StepCall ==
    /\ it_pc = "idle"
    /\ Call

\* run_one_iteration up to the loop over nodes_to_expand
StepSelect ==
    /\ pc = "loop"
    /\ it_pc = "idle"
    /\ \E sel \in {select_nodes_to_expand} :
       \E nodes \in (IF sel.nodes # <<>> THEN NodeSelection(sel.nodes) ELSE {<<>>}) :
          /\ i' = i + 1
          /\ nodes_expanded_per_iter' = Append(nodes_expanded_per_iter,
                 [iteration |-> i + 1, node_expanded |-> nodes])
          /\ it_nodes' = nodes
          /\ it_output' = <<>>
          /\ it_pc' = "expanding"
    /\ UNCHANGED <<config_vars, subgraph, pending_nodes_ingoing,
                   pending_nodes_outgoing, nodes_expanded, occurence, to_expand,
                   score_expansion, expanded, path_node_to_start, found_node,
                   metadata, best_fone, pc, filter_vars, adapter_vars,
                   superclass_vars, constructor_vars, select_vars, consume_vars>>

\* one turn of the loop over nodes_to_expand: the node is appended to
\* nodes_expanded, then expanded
StepExpandOneNode ==
    /\ it_pc = "expanding"
    /\ Len(it_output) < Len(it_nodes)
    /\ \E node \in {it_nodes[Len(it_output) + 1]} :
          /\ nodes_expanded' = Append(nodes_expanded, node)
          /\ it_output' = Append(it_output, NodeExpansion(node))
    /\ UNCHANGED <<config_vars, subgraph, pending_nodes_ingoing,
                   pending_nodes_outgoing, nodes_expanded_per_iter, occurence,
                   to_expand, score_expansion, expanded, path_node_to_start,
                   found_node, metadata, best_fone, i, pc, it_nodes, it_pc,
                   filter_vars, adapter_vars, superclass_vars, constructor_vars,
                   select_vars, consume_vars>>

\* the loop body of __call__ after run_one_iteration has returned
StepMerge ==
    /\ it_pc = "expanding"
    /\ Len(it_output) = Len(it_nodes)
    /\ FinishIteration(i, it_nodes, it_output, nodes_expanded)
    /\ it_nodes' = <<>>
    /\ it_output' = <<>>
    /\ it_pc' = "idle"
    /\ UNCHANGED <<config_vars, nodes_expanded, nodes_expanded_per_iter, i,
                   filter_vars, adapter_vars, superclass_vars, constructor_vars,
                   select_vars, consume_vars>>

StepNext == StepCall \/ StepSelect \/ StepExpandOneNode \/ StepMerge

StepSpec == StepInit /\ [][StepNext]_vars


\* ------------------------------------- the consumption of the chosen path
\* update_occurrence_after_expansion on its own, called as merge_outputs calls
\* it: with the occurrence map and the key the ranker chose from it

MaxCount == 2

\* keys of the occurrence map
ConsumeKeys == {<<"3", "-", "p">>, <<"3", "-", "q">>, <<"1", "-", "p">>}

\* the occurrence maps that hold at least one key
ConsumeMaps ==
    UNION {[keys -> 1..MaxCount] : keys \in (SUBSET ConsumeKeys) \ {{}}}

ConsumeInit ==
    /\ occ_in \in ConsumeMaps
    /\ occ_key \in DOMAIN occ_in
    /\ occ_out = [k \in {} |-> 0]
    /\ occ_pc = "called"
    /\ node_selection_type \in possible_node_selection
    /\ db = {}
    /\ mode = "simple_search"
    /\ iterations = 0
    /\ type_ranking = "pred_freq"
    /\ rdf_type = <<>>
    /\ domain_range = 0
    /\ end_node = ""
    /\ subgraph = <<>>
    /\ pending_nodes_ingoing = <<>>
    /\ pending_nodes_outgoing = <<>>
    /\ nodes_expanded = <<>>
    /\ nodes_expanded_per_iter = <<>>
    /\ occurence = [k \in {} |-> 0]
    /\ to_expand = None
    /\ score_expansion = None
    /\ expanded = <<>>
    /\ path_node_to_start = [k \in {} |-> 0]
    /\ found_node = "unbound"
    /\ metadata = [k \in {} |-> 0]
    /\ best_fone = <<0, 1>>
    /\ i = 0
    /\ pc = "constructed"
    /\ FilterUnused
    /\ AdapterUnused
    /\ SuperclassUnused
    /\ ConstructorUnused
    /\ SelectUnused
    /\ IterationUnused

\* GraphSearchFramework.update_occurrence_after_expansion
Consume ==
    /\ occ_pc = "called"
    /\ occ_out' = update_occurrence_after_expansion(occ_in, occ_key)
    /\ occ_pc' = "returned"
    /\ UNCHANGED <<occ_in, occ_key, search_vars, filter_vars, adapter_vars,
                   superclass_vars, constructor_vars, select_vars, iteration_vars>>

ConsumeNext == Consume

ConsumeSpec == ConsumeInit /\ [][ConsumeNext]_vars


\* ------------------------------------------------------------- claims
\* the positions of __call__ at which an iteration has run to its end
Completed ==
    i >= 1 /\ pc \in {"loop", "budget_exhausted", "no_more_paths", "target_found"}

NoDuplicates(s) == \A j, k \in 1..Len(s) : s[j] = s[k] => j = k

\* the key under which a pending row is counted by the configured ranking
KeyOfIngoing(row) ==
    IF type_ranking \in PredRankings THEN PredKey(row) ELSE IngoingKey(row)

KeyOfOutgoing(row) ==
    IF type_ranking \in PredRankings THEN PredKey(row) ELSE OutgoingKey(row)

\* the pending rows reachable through key k, by position
IngoingRowsOf(k) ==
    {j \in 1..Len(pending_nodes_ingoing) : KeyOfIngoing(pending_nodes_ingoing[j]) = k}

OutgoingRowsOf(k) ==
    {j \in 1..Len(pending_nodes_outgoing) : KeyOfOutgoing(pending_nodes_outgoing[j]) = k}

\* the pending candidate nodes reachable through key k
CandidatesOf(k) ==
    {pending_nodes_ingoing[j].subject : j \in IngoingRowsOf(k)}
        \cup {pending_nodes_outgoing[j].object : j \in OutgoingRowsOf(k)}

PendingKeys ==
    {KeyOfIngoing(pending_nodes_ingoing[j]) : j \in 1..Len(pending_nodes_ingoing)}
        \cup {KeyOfOutgoing(pending_nodes_outgoing[j]) : j \in 1..Len(pending_nodes_outgoing)}

RECURSIVE SumOver(_, _)
SumOver(occ, keys) ==
    IF keys = {} THEN 0
    ELSE LET k == CHOOSE x \in keys : TRUE
         IN occ[k] + SumOver(occ, keys \ {k})

\* sum of all counts of the occurrence map + number of visited nodes
Total(occ, visited) == SumOver(occ, DOMAIN occ) + Cardinality(SeqToSet(visited))

\* C1: in every mode a call of the search loop ends in one of three ways
\* (budget exhausted after exactly `iterations` iterations, the ranker
\* returned no path, the target was discovered in target-node mode), never
\* in another way and never after more than `iterations` iterations.
C1_EndsInOneOfThreeWays ==
    /\ i <= iterations
    /\ pc \in {"constructed", "ValueError", "loop",
               "budget_exhausted", "no_more_paths", "target_found"}
    /\ pc = "budget_exhausted" => i = iterations
    /\ pc = "no_more_paths" => i >= 1 /\ to_expand = None
    /\ pc = "target_found" => i >= 1 /\ mode = "search_specific_node"

\* C2: after every completed iteration no pending-ingoing row has its
\* subject in visited and no pending-outgoing row has its object in visited.
C2_PendingDisjointFromVisited ==
    Completed =>
        /\ \A j \in 1..Len(pending_nodes_ingoing) :
               pending_nodes_ingoing[j].subject \notin SeqToSet(nodes_expanded)
        /\ \A j \in 1..Len(pending_nodes_outgoing) :
               pending_nodes_outgoing[j].object \notin SeqToSet(nodes_expanded)

\* C3: after every iteration the count of every key of the occurrence map is
\* the number of pending candidates reachable through the key (counted as
\* nodes or as rows).
C3_CountIsNumberOfCandidates ==
    Completed =>
        \A k \in DOMAIN occurence :
            \/ occurence[k] = Cardinality(CandidatesOf(k))
            \/ occurence[k] = Cardinality(IngoingRowsOf(k)) + Cardinality(OutgoingRowsOf(k))

ChosenKeys ==
    ({expanded[j].path_expanded : j \in 1..Len(expanded)} \cup {to_expand}) \ {None}

MergedOccurence(nodes, iteration) ==
    MergeAll([subgraph |-> subgraph, pending_in |-> pending_nodes_ingoing,
              pending_out |-> pending_nodes_outgoing, occurence |-> occurence],
             [k \in 1..Len(nodes) |-> NodeExpansion(nodes[k])], iteration).occurence

\* C5: when the ranker has chosen path k, node selection `random` lowers the
\* count of k by exactly one and node selection `all` removes the key k.
C5_ChosenPathConsumed ==
    [][(pc = "loop" /\ to_expand' # None
            /\ pc' \in {"loop", "budget_exhausted", "target_found"}) =>
          LET merged == MergedOccurence(
                  nodes_expanded_per_iter'[Len(nodes_expanded_per_iter')].node_expanded, i')
          IN IF node_selection_type = "random"
             THEN /\ to_expand' \in DOMAIN occurence'
                  /\ occurence'[to_expand'] = merged[to_expand'] - 1
             ELSE to_expand' \notin DOMAIN occurence']_vars

\* C6: no node is handed to node expansion twice in a run, also not twice
\* within one iteration.
C6_ExpandedAtMostOnce ==
    /\ NoDuplicates(nodes_expanded)
    /\ \A j \in 1..Len(nodes_expanded_per_iter) :
           /\ NoDuplicates(nodes_expanded_per_iter[j].node_expanded)
           /\ SeqToSet(nodes_expanded_per_iter[j].node_expanded)
                  \subseteq SeqToSet(nodes_expanded)

\* C7: after every iteration the subgraph holds no two rows with the same
\* (subject, predicate, object, type_df).
C7_SubgraphHasNoDuplicateRow ==
    \A j, k \in 1..Len(subgraph) :
        (/\ subgraph[j].subject = subgraph[k].subject
         /\ subgraph[j].predicate = subgraph[k].predicate
         /\ subgraph[j].object = subgraph[k].object
         /\ subgraph[j].type_df = subgraph[k].type_df) => j = k

\* C8: visited and subgraph only grow, every row added carries the number of
\* the iteration that inserted it, the iteration tags are non-decreasing in
\* insertion order and never exceed the current iteration.
C8_VisitedAndSubgraphGrow ==
    [][/\ IsPrefix(nodes_expanded, nodes_expanded')
       /\ IsPrefix(subgraph, subgraph')
       /\ \A k \in (Len(subgraph) + 1)..Len(subgraph') : subgraph'[k].iteration = i'
       /\ \A k \in 1..Len(subgraph') : subgraph'[k].iteration <= i'
       /\ \A j, k \in 1..Len(subgraph') :
              j <= k => subgraph'[j].iteration <= subgraph'[k].iteration]_vars

\* C8 witness: a run whose subgraph holds rows of two iterations
C8_Witness ==
    /\ i >= 2
    /\ Len(nodes_expanded) >= 2
    /\ \E j, k \in 1..Len(subgraph) :
           subgraph[j].iteration = 1 /\ subgraph[k].iteration = 2

RowsDiscovering(n) ==
    {k \in 1..Len(subgraph) :
        FreeEndpoint(subgraph[k], subgraph[k].type_df) = n}

RECURSIVE BridgesToSeed(_, _)
\* path leads from node n to the seed, one triple per step, nearest first
BridgesToSeed(path, n) ==
    IF path = <<>> THEN n = StartNode
    ELSE \/ Head(path)[1] = n /\ BridgesToSeed(Tail(path), Head(path)[3])
         \/ Head(path)[3] = n /\ BridgesToSeed(Tail(path), Head(path)[1])

\* C10: in target-node mode the run stops at the end of the first iteration
\* that discovers a triple with the target as free endpoint, and not later;
\* path_node_to_start[target] then bridges the target back to the seed,
\* nearest triple first (seed A, A-p->B, B-q->D, target D: stop at
\* iteration 2 with [(B,q,D),(A,p,B)]).
C10_StopsWhenTargetDiscovered ==
    (mode = "search_specific_node" /\ Completed) =>
        /\ \A k \in RowsDiscovering(end_node) :
               subgraph[k].iteration = i /\ pc = "target_found"
        /\ pc = "target_found" =>
               /\ RowsDiscovering(end_node) # {}
               /\ end_node \in DOMAIN path_node_to_start
               /\ path_node_to_start[end_node] # <<>>
               /\ BridgesToSeed(path_node_to_start[end_node], end_node)
        /\ (db = {<<"A", "p", "B">>, <<"B", "q", "D">>} /\ end_node = "D") =>
               /\ i <= 2
               /\ pc # "loop" =>
                      \/ iterations = 1 /\ pc = "budget_exhausted"
                      \/ /\ pc = "target_found"
                         /\ i = 2
                         /\ path_node_to_start["D"] =
                                << <<"B", "q", "D">>, <<"A", "p", "B">> >>

\* C10 witness: the target found at iteration 2 over a path of two triples
C10_Witness ==
    /\ mode = "search_specific_node"
    /\ pc = "target_found"
    /\ i = 2
    /\ Len(path_node_to_start[end_node]) = 2


\* ------------------------------------------------- first iteration (C11)
\* the triples of the store that touch the seed
SeedTriples == {t \in db : t[1] = StartNode \/ t[3] = StartNode}

\* the seed's only neighbours are outgoing triples with one predicate
OutgoingStar ==
    /\ SeedTriples # {}
    /\ \A t \in SeedTriples : t[1] = StartNode
    /\ \A t, u \in SeedTriples : t[2] = u[2]

StarPredicate == (CHOOSE t \in SeedTriples : TRUE)[2]

StarCase ==
    /\ i = 1
    /\ OutgoingStar
    /\ rdf_type = <<>>
    /\ type_ranking = "pred_freq"

\* subgraph, pending-outgoing and chosen path after the star's first iteration
StarArtifacts ==
    /\ Len(subgraph) = Cardinality(SeedTriples)
    /\ SeqToSet(subgraph) =
           {[subject |-> t[1], predicate |-> t[2], object |-> t[3],
             type_df |-> "outgoing", iteration |-> 1] : t \in SeedTriples}
    /\ Len(pending_nodes_outgoing) = Cardinality(SeedTriples)
    /\ {Triple(pending_nodes_outgoing[j]) : j \in 1..Len(pending_nodes_outgoing)} =
           {[subject |-> t[1], predicate |-> t[2], object |-> t[3]] : t \in SeedTriples}
    /\ pending_nodes_ingoing = <<>>
    /\ to_expand = <<"3", "-", StarPredicate>>

C12_IsolatedSeedStopsAfterFirstIteration ==
    (SeedTriples = {} /\ i >= 1) =>
        /\ i = 1
        /\ occurence = EmptyDict
        /\ to_expand = None
        /\ pc = "no_more_paths"


\* ------------------------------------------------- exit condition (C13)
ExitConditions == {"budget_exhausted", "no_more_paths", "target_found"}

\* __call__ has returned or raised
Ended == pc \notin {"constructed", "loop"}

\* the exit conditions that the metadata holds as a value
RecordedExits == {c \in ExitConditions : \E k \in DOMAIN metadata : metadata[k] = c}

\* C13: when a run ends, its metadata records exactly one exit condition out
\* of budget_exhausted, no_more_paths, target_found, the one that matches
\* how the loop ended; with iterations = 0 no iteration is executed,
\* subgraph, pending stores, visited and occurrence map stay empty, and the
\* recorded exit condition is budget_exhausted.
C13_MetadataRecordsExitCondition ==
    /\ (Ended /\ pc \in ExitConditions) => RecordedExits = {pc}
    /\ (Ended /\ iterations = 0 /\ pc # "ValueError") =>
           /\ i = 0
           /\ subgraph = <<>>
           /\ pending_nodes_ingoing = <<>>
           /\ pending_nodes_outgoing = <<>>
           /\ nodes_expanded = <<>>
           /\ occurence = EmptyDict
           /\ RecordedExits = {"budget_exhausted"}


\* ------------------------------------------------ expansion records (C14)
\* C14: the expansion records form an append-only sequence ordered by
\* iteration with one record per executed iteration; the record of iteration
\* i holds the path through which the candidates of iteration i were
\* selected, the nodes expanded in iteration i, and the score of that path.
C14_OneRecordPerIteration ==
    [][(pc = "loop" /\ pc' \in {"loop"} \cup ExitConditions) =>
          /\ IsPrefix(expanded, expanded')
          /\ Len(expanded') = i'
          /\ LET r == expanded'[i']
             IN /\ r.iteration = i'
                /\ r.node_expanded = nodes_expanded_per_iter'[i'].node_expanded
                /\ r.path_expanded \in {to_expand, StripPrefixes(to_expand)}
                /\ r.score = score_expansion]_vars


\* ----------------------------------------------------- determinism (C15)
RECURSIVE RowsInOrder(_, _)
\* the subgraph rows of the nodes, node by node in the order of the list
RowsInOrder(nodes, iteration) ==
    IF nodes = <<>> THEN <<>>
    ELSE LET out == NodeExpansion(Head(nodes))
         IN Tag(out.subgraph_ingoing, iteration)
                \o Tag(out.subgraph_outgoing, iteration)
                \o RowsInOrder(Tail(nodes), iteration)

DayOf(text) == CHOOSE d \in WindowDays \cup ValueDays : IsoDate(d) = text

\* the text is a date of the model
IsDay(text) == \E d \in WindowDays \cup ValueDays : IsoDate(d) = text

\* day a is before day b
DayBefore(a, b) == ~DayLeq(b, a)

Returned == flt_pc = "returned"

Discarded == SeqToSet(flt_to_discard)

\* the candidates of the call: subjects of ingoing rows, objects of outgoing rows
Candidates == SeqToSet(SubjectsOf(flt_ingoing)) \cup SeqToSet(ObjectsOf(flt_outgoing))

\* the temporal rows of node n
TemporalRows(n) ==
    {k \in 1..Len(flt_type_date) :
        flt_type_date[k].subject = n /\ flt_type_date[k].predicate \in temporal}

\* row k dates its node outside the window [t_lo, t_hi], by the calendar
DatedOutside(k) ==
    LET q == flt_type_date[k].predicate
        d == DayOf(flt_type_date[k].object)
        t_lo == DayOf(flt_dates[1])
        t_hi == DayOf(flt_dates[2])
    IN /\ IsDay(flt_type_date[k].object)
       /\ \/ q \in end_dates /\ DayBefore(d, t_lo)
          \/ q \in start_dates /\ DayBefore(t_hi, d)
          \/ q \in dates /\ (DayBefore(d, t_lo) \/ DayBefore(t_hi, d))

\* C16: with when = 1 and window [t_lo, t_hi] the date rule discards node n
\* if and only if the meta triples hold (n, p, d) with p an end-date
\* predicate and d < t_lo, or p a start-date predicate and d > t_hi, or p a
\* point-date predicate and d outside the window; the nodes it discards are
\* in the result, and a node that nothing else discards and whose temporal
\* values lie inside the window is not in the result.
C16_DateRule ==
    (Returned /\ flt_when = 1) =>
        \A n \in FilterNodes :
            /\ n \in SeqToSet(get_to_discard_date(DateFrame(flt_type_date), flt_dates))
                  <=> \E k \in TemporalRows(n) : DatedOutside(k)
            /\ (\E k \in TemporalRows(n) : DatedOutside(k)) => n \in Discarded
            /\ (/\ flt_where = 0
                /\ n \notin Candidates
                /\ \A k \in TemporalRows(n) : ~DatedOutside(k)) => n \notin Discarded

\* C16 witness: of two dated nodes one is dated outside the window and
\* discarded, the other is dated inside and kept
C16_Witness ==
    /\ Returned
    /\ flt_when = 1
    /\ \E n, n2 \in FilterNodes :
          /\ \E k \in TemporalRows(n) : DatedOutside(k)
          /\ n \in Discarded
          /\ TemporalRows(n2) # {}
          /\ \A k \in TemporalRows(n2) : ~DatedOutside(k)
          /\ n2 \notin Discarded

\* ----------------------------------------------------- where rule (C17)
\* the meta triples hold (n, rdf:type, T) with T a place class
PlaceTyped(n) ==
    \E k \in 1..Len(flt_type_date) :
        /\ flt_type_date[k].subject = n
        /\ flt_type_date[k].predicate = <<"rdf:type">>
        /\ flt_type_date[k].object \in places

\* what the when dimension discards: date rule and regex fallback
WhenDiscards ==
    SeqToSet(get_to_discard_date(DateFrame(flt_type_date), flt_dates))
        \cup {n \in Candidates : YearOutOfWindow(regex_helper(n, FirstFour(flt_dates[1])), flt_dates)}

\* C17: with where = 1 the filter discards node n if and only if the meta
\* triples hold (n, rdf:type, T) with T a place class, whatever the when flag
\* and the dates of n are; with where = 0 no node is discarded for being a
\* place.
C17_WhereRule ==
    Returned =>
        \A n \in FilterNodes :
            /\ flt_where = 1 =>
                  /\ n \in SeqToSet(get_to_discard_location(flt_type_date)) <=> PlaceTyped(n)
                  /\ PlaceTyped(n) => n \in Discarded
                  /\ flt_when = 0 => (n \in Discarded <=> PlaceTyped(n))
            /\ flt_where = 0 => (n \in Discarded => flt_when = 1 /\ n \in WhenDiscards)

\* every object of a date predicate is a date
WellTyped ==
    \A k \in 1..Len(flt_type_date) :
        flt_type_date[k].predicate \in temporal => IsDay(flt_type_date[k].object)

\* ------------------------------------------------- regex fallback (C18)
\* the number a digit stands for
DigitValue(c) == CHOOSE k \in 0..9 : Digit(k) = c

\* the positions of iri at which a group of four digits begins
YearGroups(iri) ==
    {k \in 1..Len(iri) :
        k + 3 <= Len(iri) /\ \A j \in k..(k + 3) : iri[j] \in {Digit(v) : v \in 0..9}}

\* the year the first group of four digits of iri denotes
FirstYear(iri) ==
    LET k == CHOOSE j \in YearGroups(iri) : \A h \in YearGroups(iri) : j <= h
    IN 1000 * DigitValue(iri[k]) + 100 * DigitValue(iri[k + 1])
          + 10 * DigitValue(iri[k + 2]) + DigitValue(iri[k + 3])

\* the first group of four digits of n is a year outside the years of the window
YearOutside(n) ==
    /\ YearGroups(n) # {}
    /\ \/ FirstYear(n) < DayOf(flt_dates[1])[1]
       \/ FirstYear(n) > DayOf(flt_dates[2])[1]

\* C18: with when = 1 the regex fallback reads the first group of four digits
\* in a candidate's IRI (subject of an ingoing row, object of an outgoing row)
\* as a year and discards the node if and only if that year is below
\* year(t_lo) or above year(t_hi); a node whose IRI has no group of four
\* digits is never discarded by the fallback.
C18_RegexFallback ==
    (Returned /\ flt_when = 1) =>
        \A n \in FilterNodes :
            /\ n \in SeqToSet(get_to_discard_regex(flt_ingoing, flt_outgoing, flt_dates))
                  <=> (n \in Candidates /\ YearOutside(n))
            /\ (n \in Candidates /\ YearOutside(n)) => n \in Discarded
            /\ (/\ n \in Candidates
                /\ YearGroups(n) = {}
                /\ n \in Discarded)
                  => \/ n \in SeqToSet(get_to_discard_date(DateFrame(flt_type_date), flt_dates))
                     \/ flt_where = 1 /\ n \in SeqToSet(get_to_discard_location(flt_type_date))

\* C18 witness: a candidate whose first year lies outside the window is
\* discarded although a later group lies inside or nothing else discards it,
\* and a candidate without a group of four digits is kept
C18_Witness ==
    /\ Returned
    /\ flt_when = 1
    /\ \E n, n2 \in Candidates :
          /\ YearOutside(n)
          /\ TemporalRows(n) = {}
          /\ n \in Discarded
          /\ YearGroups(n2) = {}
          /\ n2 \notin Discarded

\* ------------------------------------------------ one-day window (C19)
\* the window is the single day d
OneDayWindow == flt_dates[1] = flt_dates[2]

\* every date n carries is the day of the window, and n carries one
DatedExactlyOnDay(n) ==
    /\ TemporalRows(n) # {}
    /\ \A k \in TemporalRows(n) : flt_type_date[k].object = flt_dates[1]

\* n carries a point date on another day than the day of the window
PointDatedOnOtherDay(n) ==
    \E k \in TemporalRows(n) :
        /\ flt_type_date[k].predicate \in dates
        /\ IsDay(flt_type_date[k].object)
        /\ flt_type_date[k].object # flt_dates[1]

\* a meta triple of n has a place class as object
PlaceObject(n) ==
    \E k \in 1..Len(flt_type_date) :
        flt_type_date[k].subject = n /\ flt_type_date[k].object \in places

\* C19 as stated: with when = 1 and t_lo = t_hi = d, every candidate that is
\* not dated exactly d (dated on another day, or carrying no date at all) is
\* in the discarded set.
C19_OnlyDatedOnDayKept ==
    (Returned /\ flt_when = 1 /\ OneDayWindow) =>
        \A n \in Candidates : ~DatedExactlyOnDay(n) => n \in Discarded

\* C19 amended: with when = 1 and t_lo = t_hi = d, a candidate with a point
\* date on another day than d is discarded; a candidate is discarded exactly
\* when it has a point date off d, a start date after d or an end date
\* before d, when the first year in its IRI is not the year of d, or when
\* the where dimension discards it; so a candidate that carries no date and
\* no year is kept.
C19_OneDayWindow ==
    (Returned /\ flt_when = 1 /\ OneDayWindow) =>
        \A n \in Candidates :
            /\ PointDatedOnOtherDay(n) => n \in Discarded
            /\ n \in Discarded <=>
                  \/ \E k \in TemporalRows(n) : DatedOutside(k)
                  \/ YearOutside(n)
                  \/ flt_where = 1 /\ PlaceObject(n)
            /\ (TemporalRows(n) = {} /\ YearGroups(n) = {} /\ flt_where = 0)
                  => n \notin Discarded

\* C19 witness: under a one-day window a candidate with a point date on
\* another day is discarded and a candidate without any date is kept
C19_Witness ==
    /\ Returned
    /\ flt_when = 1
    /\ OneDayWindow
    /\ \E n, n2 \in Candidates :
          /\ PointDatedOnOtherDay(n)
          /\ n \in Discarded
          /\ TemporalRows(n2) = {}
          /\ n2 \notin Discarded

\* ------------------------------------------- union of the dimensions (C20)
\* what the where dimension discards
WhereDiscards == {n \in FilterNodes : PlaceObject(n)}

\* C20: the result is the union of the nodes the where dimension and the
\* when dimension discard, and it holds every node at most once, also a node
\* that both dimensions discard.
C20_UnionWithoutDuplicates ==
    Returned =>
        /\ Discarded = (IF flt_where = 1 THEN WhereDiscards ELSE {})
                           \cup (IF flt_when = 1 THEN WhenDiscards ELSE {})
        /\ NoDuplicates(flt_to_discard)

\* ------------------------------------------- ingoing and outgoing (C21)
AdapterReturned == hdt_pc = "returned"

\* the triples of the rows of a frame
TriplesOf(frame) ==
    {<<frame[k].subject, frame[k].predicate, frame[k].object>> : k \in 1..Len(frame)}

\* the text begins with a denied namespace or with the category namespace
Denied(text) ==
    \/ \E discard \in to_discard : IsPrefix(discard, text)
    \/ IsPrefix(CategoryPrefix, text)

\* the triple survives the namespace and category denylists
Survives(t) == ~Denied(t[1]) /\ ~Denied(t[3])

\* C21: the ingoing frame the adapter returns holds exactly the store's
\* triples (s, p, node) with p outside the exclusion list that survive the
\* namespace and category denylists, the outgoing frame exactly the store's
\* triples (node, p, o) of that kind; no row of either has an excluded
\* predicate.
C21_IngoingOutgoingExact ==
    AdapterReturned =>
        /\ TriplesOf(hdt_ingoing) =
              {t \in hdt_db : t[3] = hdt_node /\ t[2] \notin hdt_predicate /\ Survives(t)}
        /\ TriplesOf(hdt_outgoing) =
              {t \in hdt_db : t[1] = hdt_node /\ t[2] \notin hdt_predicate /\ Survives(t)}
        /\ \A t \in TriplesOf(hdt_ingoing) \cup TriplesOf(hdt_outgoing) :
              t[2] \notin hdt_predicate
        /\ NoDuplicates(hdt_ingoing)
        /\ NoDuplicates(hdt_outgoing)

\* C21 witness: of three triples into the node one is returned, one has an
\* excluded predicate and one a denied subject
C21_Witness ==
    /\ AdapterReturned
    /\ Len(hdt_ingoing) = 1
    /\ \E t, u \in hdt_db :
          /\ t[3] = hdt_node /\ t[2] \in hdt_predicate
          /\ u[3] = hdt_node /\ u[2] \notin hdt_predicate /\ Denied(u[1])

\* ------------------------------------------------- spec_outgoing (C22)
\* the free endpoints of the returned rows
FreeEndpoints ==
    {hdt_ingoing[k].subject : k \in 1..Len(hdt_ingoing)}
        \cup {hdt_outgoing[k].object : k \in 1..Len(hdt_outgoing)}

\* the object as the adapter hands it over: the date of a literal ending in
\* ^^xsd:date, the year of one ending in ^^xsd:integer
NormalObject(o) ==
    IF o[Len(o)] = XsdDate THEN SubSeq(o, 2, 11)
    ELSE IF o[Len(o)] = XsdInteger THEN SubSeq(o, 2, 5)
    ELSE o

\* C22: the spec_outgoing frame holds, for every free endpoint e of the
\* returned ingoing and outgoing rows, the store's triples (e, p, o) with p a
\* meta predicate (objects as the adapter normalises them), and nothing
\* else: every row has a meta predicate and such an endpoint as subject, and
\* every row is there once.
C22_SpecOutgoingExact ==
    AdapterReturned =>
        /\ TriplesOf(hdt_types) =
              {<<t[1], t[2], NormalObject(t[3])>> :
                  t \in {u \in hdt_db : u[1] \in FreeEndpoints /\ u[2] \in DEFAULT_PRED}}
        /\ \A k \in 1..Len(hdt_types) :
              /\ hdt_types[k].predicate \in DEFAULT_PRED
              /\ hdt_types[k].subject \in FreeEndpoints
        /\ NoDuplicates(hdt_types)

\* C22 witness: a node that is an endpoint of an ingoing and of an outgoing
\* row has one meta triple, which is returned once
C22_Witness ==
    /\ AdapterReturned
    /\ \E e \in FreeEndpoints :
          /\ \E k \in 1..Len(hdt_ingoing) : hdt_ingoing[k].subject = e
          /\ \E k \in 1..Len(hdt_outgoing) : hdt_outgoing[k].object = e
          /\ Len(hdt_types) = 1
          /\ hdt_types[1].subject = e

\* ---------------------------------------------------- superclass (C23)
\* the classes right above class c in the store
Parents(c) == {t[3] : t \in {u \in db : u[1] = c /\ u[2] = subClassOf}}

RECURSIVE Above(_, _)
\* the classes reached from c by at most k subClassOf triples, c left out
Above(c, k) ==
    IF k = 0 THEN {}
    ELSE Parents(c) \cup UNION {Above(p, k - 1) : p \in Parents(c) \ {owlThing}}

\* no class is above itself
Acyclic == \A c \in Classes : c \notin Above(c, Cardinality(Classes))

RECURSIVE MostGeneral(_, _)
\* the classes the claim allows as superclass of c: c itself when it has no
\* parent or owl:Thing as parent, otherwise a superclass of a parent
MostGeneral(c, k) ==
    (IF Parents(c) = {} \/ owlThing \in Parents(c) THEN {c} ELSE {})
        \cup (IF k = 0 THEN {}
              ELSE UNION {MostGeneral(p, k - 1) : p \in Parents(c) \ {owlThing}})

C24_SuperclassReturnsOnCycle == sc_pc # "RecursionError"

\* ------------------------------------------ literal normalisation (C25)
IsDateLiteral(o) == Head(o) = "\"" /\ o[Len(o)] = XsdDate
IsIntegerLiteral(o) == Head(o) = "\"" /\ o[Len(o)] = XsdInteger

\* the text between the quotes of a literal
LexicalForm(o) ==
    LET close == CHOOSE k \in 2..Len(o) :
                     o[k] = "\"" /\ \A j \in 2..(k - 1) : o[j] # "\""
    IN SubSeq(o, 2, close - 1)

\* the meta triples of the store the call looks up
MetaTriples == {t \in hdt_db : t[1] \in FreeEndpoints /\ t[2] \in DEFAULT_PRED}

\* C25: in the triples the adapter returns every object that is an xsd:date
\* literal is replaced by its date of 10 characters, every object that is an
\* xsd:integer literal by its year of 4 characters, and every other object is
\* returned as it is; subjects and predicates are never rewritten.
C25_LiteralsNormalised ==
    AdapterReturned =>
        /\ TriplesOf(hdt_ingoing) \cup TriplesOf(hdt_outgoing) \subseteq hdt_db
        /\ \A t \in TriplesOf(hdt_ingoing) \cup TriplesOf(hdt_outgoing) :
              ~IsDateLiteral(t[3]) /\ ~IsIntegerLiteral(t[3])
        /\ \A t \in MetaTriples :
              \E row \in TriplesOf(hdt_types) :
                 /\ row[1] = t[1]
                 /\ row[2] = t[2]
                 /\ IsDateLiteral(t[3]) => (row[3] = LexicalForm(t[3]) /\ Len(row[3]) = 10)
                 /\ IsIntegerLiteral(t[3]) => (row[3] = LexicalForm(t[3]) /\ Len(row[3]) = 4)
                 /\ (~IsDateLiteral(t[3]) /\ ~IsIntegerLiteral(t[3])) => row[3] = t[3]

\* the same on stores whose integer literals have four digits
C25_FourDigitYears ==
    (\A t \in hdt_db : t[3] # SmallIntegerLiteral) => C25_LiteralsNormalised

\* ------------------------------------------------ sentinel literals (C26)
\* the literal "Unknown" with a language tag
IsUnknownSentinel(o) ==
    Len(o) > 4 /\ SubSeq(o, 1, 4) = <<"\"", "Unknown", "\"", "@">>

\* C26: no triple the adapter returns has as object a sentinel literal
\* "Unknown"@<language tag>; every such triple is dropped.
C26_NoUnknownSentinel ==
    AdapterReturned =>
        \A t \in TriplesOf(hdt_ingoing) \cup TriplesOf(hdt_outgoing) \cup TriplesOf(hdt_types) :
            ~IsUnknownSentinel(t[3])

\* ------------------------------------------------ category switch (C27)
\* the text begins with a namespace of the namespace denylist
NamespaceDenied(text) == \E discard \in to_discard : IsPrefix(discard, text)

InCategoryNamespace(text) == IsPrefix(CategoryPrefix, text)

\* C27: exclude_category switches the category denylist: with
\* exclude_category = 1 no returned triple has a subject or object in the
\* category namespace, with exclude_category = 0 the triples with such a
\* subject or object are returned like any other.
C27_CategorySwitch ==
    AdapterReturned =>
        /\ hdt_filter_kb = 1 =>
              \A t \in TriplesOf(hdt_ingoing) \cup TriplesOf(hdt_outgoing) :
                  ~InCategoryNamespace(t[1]) /\ ~InCategoryNamespace(t[3])
        /\ hdt_filter_kb = 0 =>
              \A t \in hdt_db :
                  (/\ t[1] = hdt_node \/ t[3] = hdt_node
                   /\ t[2] \notin hdt_predicate
                   /\ ~NamespaceDenied(t[1])
                   /\ ~NamespaceDenied(t[3]))
                      => t \in TriplesOf(hdt_ingoing) \cup TriplesOf(hdt_outgoing)

\* --------------------------------------------------- config errors (C28)
\* the text is a day of the calendar written YYYY-MM-DD
ValidDate(text) ==
    /\ Len(text) = 10
    /\ text[5] = "-"
    /\ text[8] = "-"
    /\ \A k \in {1, 2, 3, 4, 6, 7, 9, 10} : text[k] \in {Digit(v) : v \in 0..9}
    /\ \E y \in {1000 * DigitValue(text[1]) + 100 * DigitValue(text[2])
                    + 10 * DigitValue(text[3]) + DigitValue(text[4])} :
       \E m \in {10 * DigitValue(text[6]) + DigitValue(text[7])} :
       \E d \in {10 * DigitValue(text[9]) + DigitValue(text[10])} :
          /\ y >= 1
          /\ m \in 1..12
          /\ d >= 1
          /\ d <= (IF m \in {4, 6, 9, 11} THEN 30
                   ELSE IF m # 2 THEN 31
                   ELSE IF y % 4 = 0 /\ (y % 100 # 0 \/ y % 400 = 0) THEN 29
                   ELSE 28)

\* the keys for which the claim asks for an error
ClaimedDefects(c) ==
    {k \in {"start", "iterations", "type_ranking"} :
        \/ k = "start" /\ c.start = <<>>
        \/ k = "iterations" /\ c.iterations = <<>>
        \/ k = "type_ranking" /\ c.type_ranking = <<>>}
    \cup (IF c.type_ranking # <<>> /\ c.type_ranking[1] \notin possible_type_ranking
          THEN {"type_ranking"} ELSE {})
    \cup (IF c.type_interface # <<>> /\ c.type_interface[1] \notin {"triply", "hdt"}
          THEN {"type_interface"} ELSE {})
    \cup (IF c.dataset_type # <<>> /\ c.dataset_type[1] \notin {"wikidata", "dbpedia", "yago"}
          THEN {"dataset_type"} ELSE {})
    \cup (IF c.filtering_when = <<1>> /\ (c.start_date = <<>> \/ ~ValidDate(c.start_date[1]))
          THEN {"start_date"} ELSE {})
    \cup (IF c.filtering_when = <<1>> /\ (c.end_date = <<>> \/ ~ValidDate(c.end_date[1]))
          THEN {"end_date"} ELSE {})

\* the mandatory keys the config lacks besides
OtherDefects(c) ==
    (IF c.type_interface = <<>> THEN {"type_interface"} ELSE {})
    \cup (IF c.dataset_type = <<>> THEN {"dataset_type"} ELSE {})
    \cup (IF c.dataset_path = <<>> THEN {"dataset_path"} ELSE {})

\* the output folder and the state of the search
FolderAndSearchState ==
    {"save_folder", "subgraph", "pending_nodes_ingoing", "pending_nodes_outgoing",
     "nodes_expanded", "occurence"}

PriorityOf(row) == IF row.superclass \in TargetTypes THEN "1" ELSE "3"

\* the row of a triple as the ordering annotates it
AnnotatedRow(t) ==
    [subject |-> t[1], predicate |-> t[2], object |-> t[3],
     superclass |-> SuperclassOf(t[1])]

\* the keys the claim gives the rows found by expanding the nodes
PrefixedKeys(nodes) ==
    LET ingoing == {AnnotatedRow(t) : t \in {u \in db : u[3] \in nodes}}
        outgoing == {AnnotatedRow(t) : t \in {u \in db : u[1] \in nodes}}
    IN IF type_ranking \in PredRankings
       THEN {<<PriorityOf(row), "-", row.predicate>> : row \in ingoing \cup outgoing}
       ELSE {<<PriorityOf(row), "-", "ingoing", "-", row.predicate, ";", row.object>> :
                row \in ingoing}
            \cup {<<PriorityOf(row), "-", "outgoing", "-", row.subject, ";", row.predicate>> :
                     row \in outgoing}

Visited == SeqToSet(nodes_expanded)

\* the endpoints reachable through a predicate-only key p
ReachableThroughPredicate(p) ==
    {r.subject : r \in {x \in SeqToSet(pending_nodes_ingoing) : x.predicate = p}}
    \cup {r.object : r \in {x \in SeqToSet(pending_nodes_outgoing) : x.predicate = p}}

\* the endpoints reachable through an ingoing key (p, o)
ReachableThroughIngoing(p, o) ==
    {r.subject : r \in {x \in SeqToSet(pending_nodes_ingoing) :
                            x.predicate = p /\ x.object = o}}

\* the endpoints reachable through an outgoing key (s, p)
ReachableThroughOutgoing(s, p) ==
    {r.object : r \in {x \in SeqToSet(pending_nodes_outgoing) :
                           x.subject = s /\ x.predicate = p}}

\* what one call must select when the chosen key is written for row with prefix nb
CandidatesOfKey(nb, row) ==
    /\ to_expand = text_pred_key(nb, row)
          => SeqToSet(sel_candidates') = ReachableThroughPredicate(row.predicate) \ Visited
    /\ to_expand = text_ingoing_key(nb, row)
          => SeqToSet(sel_candidates') =
                 ReachableThroughIngoing(row.predicate, row.object) \ Visited
    /\ to_expand = text_outgoing_key(nb, row)
          => SeqToSet(sel_candidates') =
                 ReachableThroughOutgoing(row.subject, row.predicate) \ Visited

\* what one call must select in iteration 1
SeedOnly ==
    to_expand = None => sel_path' = <<>> /\ sel_candidates' = <<SeedIRI>>

\* C30: in iteration 1 the chosen path is empty and the only candidate is the
\* seed; in every later iteration the candidates are exactly the unvisited
\* endpoints reachable through the chosen key: for a predicate-only key the
\* subjects of pending-ingoing rows and the objects of pending-outgoing rows
\* with that predicate, for an ingoing key the subjects of pending-ingoing
\* rows with that predicate and object, for an outgoing key the objects of
\* pending-outgoing rows with that subject and predicate.
C30_CandidatesExact ==
    [][sel_pc = "called" =>
          /\ SeedOnly
          /\ \A nb \in {"1", "3"}, row \in SelectRows : CandidatesOfKey(nb, row)]_vars

\* the text after the prefix of the key holds the prefix once more
HoldsOwnPrefix(key) ==
    Len(key) > 2 /\ contains(SubSeq(key, 3, Len(key)), SubSeq(key, 1, 2))

\* the key names a node or predicate that holds ";"
HoldsSeparator(key) == Len(split(key, ";")) > 2

\* the rule of C30 for the keys whose text holds their prefix at the start only
\* and ";" between predicate and endpoint only
C30_CandidatesExactPlainKeys ==
    [][sel_pc = "called" /\ ~HoldsOwnPrefix(to_expand) /\ ~HoldsSeparator(to_expand) =>
          /\ SeedOnly
          /\ \A nb \in {"1", "3"}, row \in SelectRows : CandidatesOfKey(nb, row)]_vars

\* a call with a plain key that selected two candidates, and the call of iteration 1
C30_PlainKeySelected ==
    /\ sel_pc = "returned"
    /\ Len(sel_candidates) = 2
    /\ sel_path # <<>>

\* ------------------------------------- state during the expansions (C31)
\* every selected node of the iteration has been expanded
AllExpansionsReturned ==
    it_pc = "expanding" /\ Len(it_output) = Len(it_nodes)

\* C31: within one iteration none of subgraph, pending stores, visited and
\* occurrence map is modified while the selected nodes are being expanded:
\* a step that changes one of them starts after the expansion of every
\* selected node of the iteration has returned.
C31_StateUntouchedDuringExpansion ==
    [][<<subgraph, pending_nodes_ingoing, pending_nodes_outgoing, nodes_expanded,
         occurence>>' # <<subgraph, pending_nodes_ingoing, pending_nodes_outgoing,
                          nodes_expanded, occurence>>
          => AllExpansionsReturned]_vars

\* the rule of C31 for the subgraph, the pending stores and the occurrence map
C31_StoresUntouchedDuringExpansion ==
    [][<<subgraph, pending_nodes_ingoing, pending_nodes_outgoing, occurence>>'
          # <<subgraph, pending_nodes_ingoing, pending_nodes_outgoing, occurence>>
          => AllExpansionsReturned]_vars

\* an iteration that expanded two nodes and is about to merge their outputs
C31_TwoNodesExpanded ==
    AllExpansionsReturned /\ Len(it_nodes) = 2

\* ------------------------------------- denylists on the three frames (C32)
\* no row of the frame has a subject or an object in a denied namespace or in
\* the category namespace
FrameFiltered(frame) == \A t \in TriplesOf(frame) : Survives(t)

\* C32: the post-filter pipeline is applied to all three sequences the adapter
\* returns: in ingoing, outgoing and spec_outgoing alike, no triple has a
\* subject or an object that starts with a prefix of the namespace denylist or
\* with the category namespace.
C32_AllThreeFramesFiltered ==
    AdapterReturned =>
        FrameFiltered(hdt_ingoing) /\ FrameFiltered(hdt_outgoing) /\ FrameFiltered(hdt_types)

\* the rule of C32 for the ingoing and the outgoing frame
C32_IngoingOutgoingFiltered ==
    AdapterReturned => FrameFiltered(hdt_ingoing) /\ FrameFiltered(hdt_outgoing)

\* a call that dropped a denied triple from the ingoing frame and returned rows
C32_FilterApplied ==
    /\ AdapterReturned
    /\ hdt_ingoing # <<>>
    /\ \E t \in hdt_db : t[3] = hdt_node /\ ~Survives(t)

\* ------------------------------------------------------- progress (C33)
\* the step is the body of an iteration after the first
LaterIteration == i >= 1 /\ i' = i + 1

\* the iteration of the step expanded at least one node
ExpandedSomething == Len(nodes_expanded') > Len(nodes_expanded)

\* a pending row leads to a node that has not been expanded
UnvisitedCandidatePending ==
    \/ \E k \in 1..Len(pending_nodes_ingoing) :
          pending_nodes_ingoing[k].subject \notin SeqToSet(nodes_expanded)
    \/ \E k \in 1..Len(pending_nodes_outgoing) :
          pending_nodes_outgoing[k].object \notin SeqToSet(nodes_expanded)

\* every iteration after the first expands at least one node
C33_EveryLaterIterationExpands ==
    [][LaterIteration => ExpandedSomething]_vars

\* no iteration after the first expands nothing while a pending row leads to
\* an unvisited node
C33_NoIdleIterationWhilePending ==
    [][LaterIteration /\ UnvisitedCandidatePending => ExpandedSomething]_vars

\* C33: in every iteration i > 1 that the loop executes, the path chosen by
\* the ranker at the end of iteration i-1 still has at least one unvisited
\* candidate node in the pending stores, so the iteration expands at least one
\* node; the loop never spends an iteration of its budget expanding nothing
\* while unvisited candidates remain in pending.
C33_Progress ==
    [][LaterIteration =>
          /\ ExpandedSomething
          /\ select_nodes_to_expand.nodes # <<>>]_vars

\* ------------------------------------------ round trip of path keys (C34)
\* the key leads back to the pending row it was built from: the prefix alone
\* is removed and the unvisited endpoint of the row is among the candidates
LeadsBackIngoing(key, row) ==
    to_expand = key =>
        /\ sel_pc' = "returned"
        /\ to_expand' = SubSeq(key, 3, Len(key))
        /\ row.subject \in SeqToSet(sel_candidates')

LeadsBackOutgoing(key, row) ==
    to_expand = key =>
        /\ sel_pc' = "returned"
        /\ to_expand' = SubSeq(key, 3, Len(key))
        /\ row.object \in SeqToSet(sel_candidates')

\* the keys _update_occurence builds from a row under the configured ranking
KeysOfIngoing(row) ==
    IF type_ranking \in PredRankings
    THEN {text_pred_key(nb, row) : nb \in {"1", "3"}}
    ELSE {text_ingoing_key(nb, row) : nb \in {"1", "3"}}

KeysOfOutgoing(row) ==
    IF type_ranking \in PredRankings
    THEN {text_pred_key(nb, row) : nb \in {"1", "3"}}
    ELSE {text_outgoing_key(nb, row) : nb \in {"1", "3"}}

\* C34: for every key built by _update_occurence from a pending row,
\* stripping the priority prefix removes only the leading 1-, 2- or 3- and the
\* pending lookup uses exactly the predicate (and endpoint) the key was built
\* from, also when the predicate or endpoint itself contains 1-, 2-, 3-, ";",
\* ingoing or outgoing; hence the row the key was built from is among the
\* rows matched.
C34_KeyRoundTrip ==
    [][sel_pc = "called" =>
          /\ \A row \in SeqToSet(pending_nodes_ingoing) :
                \A key \in KeysOfIngoing(row) : LeadsBackIngoing(key, row)
          /\ \A row \in SeqToSet(pending_nodes_outgoing) :
                \A key \in KeysOfOutgoing(row) : LeadsBackOutgoing(key, row)]_vars

\* no part of the row holds a prefix or the separator
PlainRow(row) ==
    \A text \in {row.subject, row.predicate, row.object} :
        /\ ~contains(text, <<";">>)
        /\ \A nb \in {"1", "2", "3"} : ~contains(text, <<nb, "-">>)

\* the round trip of C34 for the rows none of whose parts holds a prefix or ";"
C34_PlainKeyRoundTrip ==
    [][sel_pc = "called" =>
          /\ \A row \in {r \in SeqToSet(pending_nodes_ingoing) : PlainRow(r)} :
                \A key \in KeysOfIngoing(row) : LeadsBackIngoing(key, row)
          /\ \A row \in {r \in SeqToSet(pending_nodes_outgoing) : PlainRow(r)} :
                \A key \in KeysOfOutgoing(row) : LeadsBackOutgoing(key, row)]_vars

\* a call whose key names a node with ";" ends in the unpacking error
C34_UnpackRaises == sel_pc = "ValueError"

\* ------------------------------------------------ provenance paths (C35)
\* the two nodes of a triple
EndsOf(t) == {t[1], t[3]}

\* a non-empty list of triples from n to the seed, each sharing a node with
\* the next
ChainToSeed(path, n) ==
    /\ Len(path) >= 1
    /\ n \in EndsOf(path[1])
    /\ \A k \in 1..(Len(path) - 1) : EndsOf(path[k]) \cap EndsOf(path[k + 1]) # {}
    /\ StartNode \in EndsOf(path[Len(path)])

\* C35: in the modes that track provenance, after every iteration each entry
\* path_node_to_start[n] is a non-empty list of triples whose first triple has
\* n as subject or object, in which every triple shares a node with the next
\* one, and whose last triple has the seed as subject or object; and
\* _update_path never looks up the previous path of a node that has no entry.
C35_PathsChainToSeed ==
    TracksPaths =>
        /\ pc # "KeyError"
        /\ \A n \in DOMAIN path_node_to_start :
               ChainToSeed(path_node_to_start[n], n)

\* C35 witness: after the second iteration a node has a path of two triples
\* and the seed has an entry of its own
C35_Witness ==
    /\ TracksPaths
    /\ Completed
    /\ i >= 2
    /\ StartNode \in DOMAIN path_node_to_start
    /\ \E n \in DOMAIN path_node_to_start :
           n # StartNode /\ Len(path_node_to_start[n]) >= 2

\* ------------------------------------- the caller's config is kept (C36)
\* the exclusion list of the k-th framework made from the config
ExclusionList(k) == predicate_filter_of(cfg_frameworks[k], cfg_config)

\* C36: constructing the framework leaves the caller's config unchanged: with
\* filtering.what = 1 and a predicate_filter list in the config, that list is
\* the same after construction as before, the dataset's rdf:type predicate
\* being added to the framework's exclusion list only.
C36_ConfigUnchanged ==
    [][cfg_config' = cfg_config]_vars

\* the rule of C36 for the configs without a predicate_filter list or without
\* filtering.what = 1
C36_ConfigUnchangedWithoutList ==
    [][(cfg_config.predicate_filter = <<>> \/ cfg_config.filtering_what # <<1>>)
          => cfg_config' = cfg_config]_vars

\* two frameworks made from one config have the same exclusion list
C36_SameExclusionList ==
    cfg_pc = "constructed_again" => ExclusionList(1) = ExclusionList(2)

\* the exclusion list holds the dataset's rdf:type predicate at most once
C36_RdfTypeAddedOnce ==
    \A k \in 1..Len(cfg_frameworks) :
        Cardinality({j \in 1..Len(ExclusionList(k)) :
                        ExclusionList(k)[j] = DatasetRdfType}) <= 1

\* ----------------------------------- frame of the consumption (C37)
\* C37: update_occurrence_after_expansion changes nothing but the entry of the
\* chosen path: every other key is present afterwards with the same count, no
\* key is added, and the map passed in is not modified (a new map is returned).
C37_OnlyChosenEntryChanges ==
    [][occ_pc = "called" =>
          /\ \A k \in DOMAIN occ_in \ {occ_key} :
                k \in DOMAIN occ_out' /\ occ_out'[k] = occ_in[k]
          /\ DOMAIN occ_out' \subseteq DOMAIN occ_in
          /\ occ_in' = occ_in]_vars

\* C37 witness: a call with node selection all that removed the chosen key and
\* returned two other keys
C37_Witness ==
    /\ occ_pc = "returned"
    /\ node_selection_type = "all"
    /\ occ_key \notin DOMAIN occ_out
    /\ Cardinality(DOMAIN occ_out) = 2

\* ------------------------------------------------- year values (C38)
\* the text is a year of four digits
IsYear(text) == Len(text) = 4 /\ \A k \in 1..4 : IsDigit(text[k])

\* the number a year of four digits denotes
YearNumber(text) ==
    1000 * DigitValue(text[1]) + 100 * DigitValue(text[2])
       + 10 * DigitValue(text[3]) + DigitValue(text[4])

\* the only temporal value of n is a year between the years lo and hi
OnlyYearBetween(n, lo, hi) ==
    \E k \in TemporalRows(n) :
        /\ TemporalRows(n) = {k}
        /\ IsYear(flt_type_date[k].object)
        /\ \E y \in {YearNumber(flt_type_date[k].object)} : lo <= y /\ y <= hi

\* the nodes the date rule discards in this call
DiscardedByDate ==
    SeqToSet(get_to_discard_date(DateFrame(flt_type_date), flt_dates))

\* C38: the date rule treats a 4-character year value consistently with
\* 10-character dates: a node whose only temporal value is a year Y with
\* year(t_lo) <= Y <= year(t_hi) is never discarded by get_to_discard_date,
\* whichever temporal predicate carries it.
C38_YearInsideWindowKept ==
    (Returned /\ flt_when = 1) =>
        \A n \in FilterNodes :
            OnlyYearBetween(n, YearNumber(FirstFour(flt_dates[1])),
                            YearNumber(FirstFour(flt_dates[2])))
                => n \notin DiscardedByDate

\* the rule of C38 for the years after the year of t_lo
C38_LaterYearInsideWindowKept ==
    (Returned /\ flt_when = 1) =>
        \A n \in FilterNodes :
            OnlyYearBetween(n, YearNumber(FirstFour(flt_dates[1])) + 1,
                            YearNumber(FirstFour(flt_dates[2])))
                => n \notin DiscardedByDate

\* the rule of C38 for the start-date predicates
C38_StartYearInsideWindowKept ==
    (Returned /\ flt_when = 1) =>
        \A n \in FilterNodes :
            (/\ OnlyYearBetween(n, YearNumber(FirstFour(flt_dates[1])),
                                YearNumber(FirstFour(flt_dates[2])))
             /\ \A k \in TemporalRows(n) : flt_type_date[k].predicate \in start_dates)
                => n \notin DiscardedByDate

\* a call in which a year after the year of t_lo and inside the window was kept
C38_LaterYearSeen ==
    /\ Returned
    /\ flt_when = 1
    /\ \E n \in FilterNodes :
          OnlyYearBetween(n, YearNumber(FirstFour(flt_dates[1])) + 1,
                          YearNumber(FirstFour(flt_dates[2])))

====
